---- MODULE Spec2Model ----
(***************************************************************************)
(* State-machine model of the pantry simulation (src/src/simulation.py).   *)
(*                                                                         *)
(* Quantities are fixed-point numbers counted in thousandths (MILLI units  *)
(* make 1.0), so that the "empty" threshold 0.001 of Pantry.step is the    *)
(* integer EMPTY_EPS.  Products with a fraction (leftover percentage,      *)
(* perishable proportion, means) are computed on the fixed-point grid and  *)
(* rounded down; floating-point rounding noise is not modelled.            *)
(***************************************************************************)
EXTENDS Integers, Sequences, FiniteSets, TLC

VARIABLES
    items_by_type,  \* Pantry.items_by_type of each household's pantry
    waste_log,      \* Pantry.waste_log: both ledgers, one entry per day
    current_day,    \* Pantry.current_day
    weekly_meals,   \* Household.weekly_meals (planned masses, day by day)
    history,        \* Household.history (daily records)
    daily,          \* Household's per-day counters (daily_consumption, ...)
    config,         \* the strategy objects a Household was constructed with
    order_policy,   \* Household.order_policy: reference to a policy object
    policies,       \* the OrderPolicy objects, by reference
    call            \* the last call made on the program: operation, result

vars == <<items_by_type, waste_log, current_day, weekly_meals, history,
          daily, config, order_policy, policies, call>>

pantry_vars == <<items_by_type, waste_log, current_day>>
household_vars == <<weekly_meals, history, daily, config, order_policy, policies>>

----------------------------------------------------------------------------
(* Bounds of the model *)

MaxItems == 2        \* items a caller stocks into one pantry with add_item
MaxPantryDay == 2    \* Pantry.step calls made directly on a pantry

(* Program constants *)

MILLI == 1000        \* fixed-point units per 1.0 of quantity
EMPTY_EPS == 1       \* 0.001, the "empty item" threshold of Pantry.step

EMERGENCY_TAKEOUT == "Emergency Takeout"

FoodType == {"LEFTOVER", "PERISHABLE", "NON_PERISHABLE"}
\* iteration order of the FoodType enum and of the dicts built from it
TypeOrder == <<"LEFTOVER", "PERISHABLE", "NON_PERISHABLE">>

----------------------------------------------------------------------------
(* Sequence helpers *)

RECURSIVE SumSeq(_)
SumSeq(s) == IF s = <<>> THEN 0 ELSE Head(s) + SumSeq(Tail(s))

RemoveAt(s, k) == SubSeq(s, 1, k - 1) \o SubSeq(s, k + 1, Len(s))

Quantities(items) == [i \in 1..Len(items) |-> items[i].quantity]
Takes(foods) == [i \in 1..Len(foods) |-> foods[i].take]

SumTypes(d) == d["LEFTOVER"] + d["PERISHABLE"] + d["NON_PERISHABLE"]

----------------------------------------------------------------------------
(* FoodItem *)

FoodItem(name, food_type, best_before, spoilage_date, quantity) ==
    [name |-> name, food_type |-> food_type, best_before |-> best_before,
     spoilage_date |-> spoilage_date, quantity |-> quantity]

\* a constructor that wants best_before strictly before spoilage_date
RaisesUnlessBefore(best_before, spoilage_date) == best_before >= spoilage_date

\* the constructor raises ValueError for these arguments
FoodItemRaises(best_before, spoilage_date) == best_before > spoilage_date

\* a day that lowers both horizons whatever they are
DayPassesUnfloored(item) ==
    [item EXCEPT !.best_before = item.best_before - 1,
                 !.spoilage_date = item.spoilage_date - 1]

day_passes(item) ==
    [item EXCEPT
        !.best_before = IF item.best_before > 0 THEN item.best_before - 1
                        ELSE item.best_before,
        !.spoilage_date = IF item.spoilage_date > 0 THEN item.spoilage_date - 1
                          ELSE item.spoilage_date]

is_past_best_before(item) == item.best_before <= 0

\* an item that is expired only once its spoilage date is behind it
ExpiredPastZero(item) == item.spoilage_date < 0

is_expired(item) == item.spoilage_date <= 0

\* a consume that refuses to finish the item
RaisesAtWhole(item, amount) == amount >= item.quantity

\* FoodItem.consume raises ValueError for this amount
ConsumeRaises(item, amount) == amount > item.quantity
\* a consume that finishes the item
ConsumeWhole(item, amount) == [item EXCEPT !.quantity = 0]
FoodItemConsume(item, amount) == [item EXCEPT !.quantity = item.quantity - amount]

----------------------------------------------------------------------------
(* PantryStrategy *)

PantryStrategies == {"Strict", "Lax"}

\* both strategies discard at expiry only
DiscardExpiredOnly(strategy, item) == is_expired(item)

\* both strategies discard past the best-before date
DiscardPastBestBefore(strategy, item) == is_past_best_before(item)

should_discard(strategy, item) ==
    IF strategy = "Strict" THEN is_past_best_before(item) ELSE is_expired(item)

----------------------------------------------------------------------------
(* Pantry *)

EmptyItems == [t \in FoodType |-> <<>>]
ZeroWeights == [t \in FoodType |-> 0]
EmptyWasteLog == [strategy_discards |-> <<>>, expired_discards |-> <<>>]

\* d[key] = value on a dict keyed by day numbers
DictSet(d, key, value) ==
    [k \in (DOMAIN d) \cup {key} |-> IF k = key THEN value ELSE d[k]]

\* list.sort(key=spoilage_date): a stable sort
RECURSIVE InsertSorted(_, _)
InsertSorted(sorted, item) ==
    IF sorted = <<>> THEN <<item>>
    ELSE LET n == Len(sorted) IN
         IF sorted[n].spoilage_date <= item.spoilage_date
         THEN Append(sorted, item)
         ELSE Append(InsertSorted(SubSeq(sorted, 1, n - 1), item), sorted[n])

RECURSIVE SortBySpoilage(_)
SortBySpoilage(s) ==
    IF s = <<>> THEN <<>>
    ELSE InsertSorted(SortBySpoilage(SubSeq(s, 1, Len(s) - 1)), s[Len(s)])

AppendOnly(items, item) ==
    [items EXCEPT ![item.food_type] = Append(items[item.food_type], item)]

add_item(items, item) ==
    [items EXCEPT ![item.food_type] =
        SortBySpoilage(Append(items[item.food_type], item))]

RECURSIVE add_items(_, _)
add_items(items, new) ==
    IF new = <<>> THEN items ELSE add_items(add_item(items, Head(new)), Tail(new))

get_total_by_type(items, t) == SumSeq(Quantities(items[t]))
get_total(items) ==
    get_total_by_type(items, "LEFTOVER") + get_total_by_type(items, "PERISHABLE")
        + get_total_by_type(items, "NON_PERISHABLE")

\* Pantry.step, the classification of one aged item: the three lists
InEmptyItems(item) == item.quantity <= EMPTY_EPS

\* an expiry check that does not look at the quantity first
ExpiredBeforeEmpty(item) == is_expired(item)

InExpiredItems(item) == ~InEmptyItems(item) /\ is_expired(item)

StrategyBeforeExpiry(strategy, item) ==
    ~InEmptyItems(item) /\ should_discard(strategy, item)

InStrategyDiscards(strategy, item) ==
    ~InEmptyItems(item) /\ ~is_expired(item) /\ should_discard(strategy, item)

Aged(list) == [i \in 1..Len(list) |-> day_passes(list[i])]

Positions(list, Test(_)) == {i \in 1..Len(list) : Test(list[i])}

RECURSIVE PickSeq(_, _, _)
\* the items of list at the positions of P, in list order
PickSeq(list, P, i) ==
    IF i > Len(list) THEN <<>>
    ELSE (IF i \in P THEN <<list[i]>> ELSE <<>>) \o PickSeq(list, P, i + 1)

\* the locals of Pantry.step once its loop over all items has finished
StepLocals(items, strategy) ==
    LET aged == [t \in FoodType |-> Aged(items[t])]
        E(item) == InExpiredItems(item)
        S(item) == InStrategyDiscards(strategy, item)
        M(item) == InEmptyItems(item)
        exp == [t \in FoodType |-> Positions(aged[t], E)]
        str == [t \in FoodType |-> Positions(aged[t], S)]
        emp == [t \in FoodType |-> Positions(aged[t], M)]
    IN  [aged |-> aged,
         expired_items |-> exp,
         strategy_discards |-> str,
         empty_items |-> emp,
         weights_expired |->
            [t \in FoodType |-> SumSeq(Quantities(PickSeq(aged[t], exp[t], 1)))],
         weights_strategy_discarded |->
            [t \in FoodType |-> SumSeq(Quantities(PickSeq(aged[t], str[t], 1)))]]

\* a removal loop that leaves the strategy discards in the pantry
StepItemsKeepsDiscards(loc) ==
    [t \in FoodType |->
        PickSeq(loc.aged[t],
                (1..Len(loc.aged[t])) \ (loc.expired_items[t]
                    \cup loc.empty_items[t]), 1)]

RECURSIVE Reversed(_)
Reversed(list) ==
    IF list = <<>> THEN <<>> ELSE Append(Reversed(Tail(list)), Head(list))

\* a removal loop that leaves what it keeps in the opposite order
StepItemsBackwards(loc) ==
    [t \in FoodType |->
        Reversed(PickSeq(loc.aged[t],
                (1..Len(loc.aged[t])) \ (loc.expired_items[t]
                    \cup loc.strategy_discards[t] \cup loc.empty_items[t]), 1))]

\* the category lists after the removal loop of Pantry.step
StepItems(loc) ==
    [t \in FoodType |->
        PickSeq(loc.aged[t],
                (1..Len(loc.aged[t])) \ (loc.expired_items[t]
                    \cup loc.strategy_discards[t] \cup loc.empty_items[t]), 1)]

\* a ledger that gets a strategy_discards entry only on days with discards
StepWasteLogSparse(log, day, loc) ==
    [expired_discards |-> DictSet(log.expired_discards, day, loc.weights_expired),
     strategy_discards |->
        IF loc.weights_strategy_discarded = ZeroWeights THEN log.strategy_discards
        ELSE DictSet(log.strategy_discards, day, loc.weights_strategy_discarded)]

StepWasteLog(log, day, loc) ==
    [expired_discards |-> DictSet(log.expired_discards, day, loc.weights_expired),
     strategy_discards |->
        DictSet(log.strategy_discards, day, loc.weights_strategy_discarded)]

\* a reset that starts the pantry over, as Pantry.__init__ does
ResetAll(pantry) ==
    [items_by_type |-> EmptyItems, waste_log |-> EmptyWasteLog, current_day |-> 0]

\* Pantry.reset on the fields of a pantry
reset(pantry) == [pantry EXCEPT !.items_by_type = EmptyItems]

----------------------------------------------------------------------------
(* ConsumptionStrategy: select_food returns (item, amount) pairs.  A pair is
   modelled as [item, pos, take]: item is the FoodItem as it is when chosen,
   pos its index in the category list when select_food returns (0 when the
   object is no longer in that list), take the amount. Each result comes
   with the category list as select_food leaves it. *)

ConsumptionStrategies == {"Basic", "Random", "Mixed"}

RECURSIVE BasicLoopWholeItems(_, _, _)
\* a loop that never splits an item
BasicLoopWholeItems(available_foods, i, amount) ==
    IF i > Len(available_foods) \/ amount <= 0 THEN <<>>
    ELSE LET food == available_foods[i] IN
         <<[item |-> food, pos |-> i, take |-> food.quantity]>>
            \o BasicLoopWholeItems(available_foods, i + 1, amount - food.quantity)

RECURSIVE BasicLoopNewestFirst(_, _, _)
\* a loop that walks the list from its end
BasicLoopNewestFirst(available_foods, i, amount) ==
    IF i > Len(available_foods) \/ amount <= 0 THEN <<>>
    ELSE LET pos == Len(available_foods) - i + 1
             food == available_foods[pos]
         IN  IF food.quantity <= amount
             THEN <<[item |-> food, pos |-> pos, take |-> food.quantity]>>
                    \o BasicLoopNewestFirst(available_foods, i + 1,
                                            amount - food.quantity)
             ELSE <<[item |-> food, pos |-> pos, take |-> amount]>>

\* a loop that takes the whole amount from the first item it is shown
BasicLoopFirstItem(available_foods, i, amount) ==
    IF i > Len(available_foods) \/ amount <= 0 THEN <<>>
    ELSE <<[item |-> available_foods[i], pos |-> i, take |-> amount]>>

RECURSIVE BasicLoop(_, _, _)
BasicLoop(available_foods, i, amount) ==
    IF i > Len(available_foods) \/ amount <= 0 THEN <<>>
    ELSE LET food == available_foods[i] IN
         IF food.quantity <= amount
         THEN <<[item |-> food, pos |-> i, take |-> food.quantity]>>
                \o BasicLoop(available_foods, i + 1, amount - food.quantity)
         ELSE <<[item |-> food, pos |-> i, take |-> amount]>>
                \o BasicLoop(available_foods, i + 1, 0)

BasicSelectFood(available_foods, amount) ==
    {[foods_to_eat |-> BasicLoop(available_foods, 1, amount),
      available_foods |-> available_foods]}

RECURSIVE RandomSelectFood(_, _)
\* every result random.choice can lead to
RandomSelectFood(available_foods, amount) ==
    IF amount <= 0 \/ available_foods = <<>>
    THEN {[foods_to_eat |-> <<>>, available_foods |-> available_foods]}
    ELSE UNION {
        LET food == available_foods[k] IN
        IF food.quantity <= amount
        THEN {[foods_to_eat |->
                  <<[item |-> food, pos |-> 0, take |-> food.quantity]>>
                      \o r.foods_to_eat,
               available_foods |-> r.available_foods] :
              r \in RandomSelectFood(RemoveAt(available_foods, k),
                                     amount - food.quantity)}
        ELSE {[foods_to_eat |-> <<[item |-> food, pos |-> k, take |-> amount]>>,
               available_foods |-> available_foods]}
        : k \in 1..Len(available_foods)}

\* Mixed: random.random() < fifo_probability picks Basic, else Random
select_food(strategy, available_foods, amount) ==
    CASE strategy = "Basic" -> BasicSelectFood(available_foods, amount)
      [] strategy = "Random" -> RandomSelectFood(available_foods, amount)
      [] OTHER -> BasicSelectFood(available_foods, amount)
                    \cup RandomSelectFood(available_foods, amount)


----------------------------------------------------------------------------
(* Meal *)

\* the placeholder choose_food_to_eat appends for a shortfall
TakeoutChoice(remaining_amount) ==
    [item |-> FoodItem(EMERGENCY_TAKEOUT, "PERISHABLE", 0, 0, remaining_amount),
     pos |-> 0, take |-> remaining_amount]

\* a round that orders takeout whether or not the pantry fell short
TakeoutAlways(r, amount) ==
    Append(r.foods_to_eat,
           TakeoutChoice(amount - SumSeq(Takes(r.foods_to_eat))))

\* one round of the loop of choose_food_to_eat, for one selection result r
ChosenWithTakeout(r, amount) ==
    LET consumed_amount == SumSeq(Takes(r.foods_to_eat))
        remaining_amount == amount - consumed_amount
    IN  IF remaining_amount > 0
        THEN Append(r.foods_to_eat, TakeoutChoice(remaining_amount))
        ELSE r.foods_to_eat

RECURSIVE ChooseLoop(_, _, _, _)
\* choose_food_to_eat from the i-th entry of the consumption pattern on: the
\* set of [foods_to_eat, chosen_foods, items] it can end with, chosen_foods
\* being what select_food returned for each category
ChooseLoop(items, patterns, strategy, i) ==
    IF i > Len(TypeOrder)
    THEN {[foods_to_eat |-> <<>>, chosen_foods |-> EmptyItems, items |-> items]}
    ELSE LET food_type == TypeOrder[i] IN
         UNION {
            {[foods_to_eat |-> ChosenWithTakeout(r, patterns[food_type])
                                 \o rest.foods_to_eat,
              chosen_foods |->
                 [rest.chosen_foods EXCEPT ![food_type] = r.foods_to_eat],
              items |-> rest.items] :
             rest \in ChooseLoop([items EXCEPT ![food_type] = r.available_foods],
                                 patterns, strategy, i + 1)}
            : r \in select_food(strategy, items[food_type], patterns[food_type])}

choose_food_to_eat(items, patterns, strategy) ==
    ChooseLoop(items, patterns, strategy, 1)

\* the guard of Meal.consume: the placeholder is not subtracted
IsPantryFood(choice) == choice.item.name # EMERGENCY_TAKEOUT

\* a consume that leaves the pantry as it is
ConsumeNothing(items, foods_to_eat, i) == [items |-> items, raised |-> FALSE]

RECURSIVE ConsumeLoop(_, _, _)
\* the loop of Meal.consume from the i-th choice on: [items, raised]
ConsumeLoop(items, foods_to_eat, i) ==
    IF i > Len(foods_to_eat) THEN [items |-> items, raised |-> FALSE]
    ELSE LET c == foods_to_eat[i]
             t == c.item.food_type
             \* the object chosen, as it is now
             obj == IF c.pos = 0 THEN c.item ELSE items[t][c.pos]
         IN  IF ~IsPantryFood(c) THEN ConsumeLoop(items, foods_to_eat, i + 1)
             ELSE IF ConsumeRaises(obj, c.take)
             THEN [items |-> items, raised |-> TRUE]
             ELSE IF c.pos = 0 THEN ConsumeLoop(items, foods_to_eat, i + 1)
             ELSE ConsumeLoop(
                    [items EXCEPT ![t][c.pos] = FoodItemConsume(obj, c.take)],
                    foods_to_eat, i + 1)

\* Meal.consume: the set of [foods_to_eat, items, raised] it can end with
MealConsume(items, patterns, strategy) ==
    {[foods_to_eat |-> ch.foods_to_eat,
      chosen_foods |-> ch.chosen_foods,
      items |-> ConsumeLoop(ch.items, ch.foods_to_eat, 1).items,
      raised |-> ConsumeLoop(ch.items, ch.foods_to_eat, 1).raised] :
     ch \in choose_food_to_eat(items, patterns, strategy)}


----------------------------------------------------------------------------
(* MealGenerator *)

MealNames == <<"breakfast", "lunch", "dinner">>
ADULT_CONSUMPTION == [breakfast |-> 400, lunch |-> 600, dinner |-> 600]
KID_CONSUMPTION == [breakfast |-> 250, lunch |-> 400, dinner |-> 400]
DAYS_PER_WEEK == 7

\* _calculate_daily_consumption, in fixed-point units
calculate_daily_consumption(adults, children) ==
    [m \in {"breakfast", "lunch", "dinner"} |->
        (ADULT_CONSUMPTION[m] * adults + KID_CONSUMPTION[m] * children) * MILLI]

\* the meals of one day that random.random() <= meals_at_home_ratio keeps:
\* a day's menu is the ordered list of the meal names kept
AllMeals == <<"breakfast", "lunch", "dinner">>

\* the weeks drawn: the days alternate between two menus
WeekMenus == {[d \in 1..DAYS_PER_WEEK |-> IF d % 2 = 1 THEN w[1] ELSE w[2]] :
                w \in {<<AllMeals, AllMeals>>, <<AllMeals, <<>> >>,
                       <<<<"breakfast">>, AllMeals>>}}

\* a generator that plans Monday to Friday only
GenerateWorkdays(adults, children, week) ==
    [d \in 1..5 |->
        [k \in 1..Len(week[d]) |->
            calculate_daily_consumption(adults, children)[week[d][k]]]]

\* StandardMealGenerator.generate_weekly_meals for one draw of the week
generate_weekly_meals(adults, children, week) ==
    LET consumption_patterns == calculate_daily_consumption(adults, children)
    IN  [d \in 1..Len(week) |->
            [k \in 1..Len(week[d]) |-> consumption_patterns[week[d][k]]]]

----------------------------------------------------------------------------
(* MealPlanningStrategy: the consumption pattern of plan_meal *)

\* a plan that asks of the non-perishables no more than is in stock
StockBoundPlan(items, total_grams) ==
    LET leftovers == get_total_by_type(items, "LEFTOVER")
        perishables == get_total_by_type(items, "PERISHABLE")
        non_perishables == get_total_by_type(items, "NON_PERISHABLE")
        leftovers_to_consume == IF leftovers < total_grams THEN leftovers
                                ELSE total_grams
        rest == total_grams - leftovers_to_consume
        perishables_to_consume == IF perishables < rest THEN perishables ELSE rest
        remainder == rest - perishables_to_consume
    IN  [LEFTOVER |-> leftovers_to_consume,
         PERISHABLE |-> perishables_to_consume,
         NON_PERISHABLE |-> IF non_perishables < remainder THEN non_perishables
                            ELSE remainder]

\* a plan that asks for perishables whether or not they are in stock
UncappedPerishablesPlan(items, total_grams) ==
    LET leftovers == get_total_by_type(items, "LEFTOVER")
        leftovers_to_consume == IF leftovers < total_grams THEN leftovers
                                ELSE total_grams
    IN  [LEFTOVER |-> leftovers_to_consume,
         PERISHABLE |-> total_grams - leftovers_to_consume,
         NON_PERISHABLE |-> 0]

FreshFirstPlan(items, total_grams) ==
    LET leftovers == get_total_by_type(items, "LEFTOVER")
        perishables == get_total_by_type(items, "PERISHABLE")
        leftovers_to_consume == IF leftovers < total_grams THEN leftovers
                                ELSE total_grams
        rest == total_grams - leftovers_to_consume
        perishables_to_consume == IF perishables < rest THEN perishables ELSE rest
    IN  [LEFTOVER |-> leftovers_to_consume,
         PERISHABLE |-> perishables_to_consume,
         NON_PERISHABLE |-> rest - perishables_to_consume]

\* a plan that leaves the perishable shortfall unassigned
UnshiftedPlan(items, total_grams, proportion_perishables) ==
    LET leftovers_available == get_total_by_type(items, "LEFTOVER")
        perishables_available == get_total_by_type(items, "PERISHABLE")
        leftovers_to_consume == IF leftovers_available < total_grams
                                THEN leftovers_available ELSE total_grams
        rest == total_grams - leftovers_to_consume
        perishables_target == (rest * proportion_perishables) \div MILLI
    IN  [LEFTOVER |-> leftovers_to_consume,
         PERISHABLE |-> IF perishables_available <= perishables_target
                        THEN perishables_available ELSE perishables_target,
         NON_PERISHABLE |-> rest - perishables_target]

\* proportion_perishables is given in thousandths
ProportionalPlan(items, total_grams, proportion_perishables) ==
    LET leftovers_available == get_total_by_type(items, "LEFTOVER")
        perishables_available == get_total_by_type(items, "PERISHABLE")
        leftovers_to_consume == IF leftovers_available < total_grams
                                THEN leftovers_available ELSE total_grams
        rest == total_grams - leftovers_to_consume
        perishables_target == (rest * proportion_perishables) \div MILLI
        non_perishables_target == rest - perishables_target
    IN  IF perishables_available <= perishables_target
        THEN [LEFTOVER |-> leftovers_to_consume,
              PERISHABLE |-> perishables_available,
              NON_PERISHABLE |-> non_perishables_target
                                    + (perishables_target - perishables_available)]
        ELSE [LEFTOVER |-> leftovers_to_consume,
              PERISHABLE |-> perishables_target,
              NON_PERISHABLE |-> non_perishables_target]

plan_meal(strategy, items, total_grams) ==
    IF strategy.kind = "FreshFirst" THEN FreshFirstPlan(items, total_grams)
    ELSE ProportionalPlan(items, total_grams, strategy.proportion_perishables)

----------------------------------------------------------------------------
(* PlateWasteCalculator, LeftoversGenerator: percentages in thousandths *)

RECURSIVE SumScaled(_, _)
\* sum of amount * percentage over the consumed (item, amount) pairs
SumScaled(consumed_items, percentage) ==
    IF consumed_items = <<>> THEN 0
    ELSE (Head(consumed_items).take * percentage) \div MILLI
            + SumScaled(Tail(consumed_items), percentage)

compute_plate_waste(consumed_items, waste_percentage) ==
    SumScaled(consumed_items, waste_percentage)

compute_leftovers(consumed_items, leftover_percentage) ==
    SumScaled(consumed_items, leftover_percentage)


----------------------------------------------------------------------------
(* GroceryStore.  The random draws of one get_order call are a script: a
   sequence of [fraction, best_before, spoilage_date], read cyclically, where
   fraction (in thousandths, 100..500) places the draw of
   uniform(0.1*total, 0.5*total) and the horizons are the two Gaussian draws. *)

MAX_FAILURES == 100

Draw(fraction, best_before, spoilage_date) ==
    [fraction |-> fraction, best_before |-> best_before,
     spoilage_date |-> spoilage_date]

DrawScripts ==
    [PERISHABLE |-> {<<Draw(500, 3, 2), Draw(500, 1, 3)>>},
     NON_PERISHABLE |-> {<<Draw(500, 9, 9)>>}]

Max(a, b) == IF a > b THEN a ELSE b
Min(a, b) == IF a < b THEN a ELSE b

\* the locals of get_order before its loop
GetOrderLocals(total_quantity) ==
    [order |-> <<>>, remaining_quantity |-> total_quantity \div MILLI,
     failures |-> 0]

\* a loop that runs until the mass is reached
LoopingUntilMass(locals) == locals.remaining_quantity > 0

\* the condition of the while loop
Looping(locals) ==
    locals.remaining_quantity > 0 /\ locals.failures < MAX_FAILURES

\* the drawn quantity without the cap at the remaining need
UncappedQuantity(total_quantity, fraction, remaining_quantity) ==
    ((total_quantity \div MILLI) * fraction
        + ((total_quantity % MILLI) * fraction) \div MILLI) \div MILLI

\* the quantity of one draw: uniform(0.1*total, 0.5*total) placed by
\* fraction, capped at the remaining need, truncated to whole units
DrawnQuantity(total_quantity, fraction, remaining_quantity) ==
    LET \* total_quantity * fraction, fixed point, without overflow
        drawn == (total_quantity \div MILLI) * fraction
                    + ((total_quantity % MILLI) * fraction) \div MILLI
    IN  Min(drawn, remaining_quantity * MILLI) \div MILLI

\* the spoilage date as drawn
DrawnSpoilage(best_before, spoilage_date) == spoilage_date

\* the spoilage date is always greater than the best before date
ClampSpoilage(best_before, spoilage_date) == Max(best_before + 1, spoilage_date)


\* a loop body whose count of failures starts again after an item
ConsecutiveLoopBody(food_type, total_quantity, d, locals) ==
    LET spoilage_date == ClampSpoilage(d.best_before, d.spoilage_date)
        quantity == DrawnQuantity(total_quantity, d.fraction,
                                  locals.remaining_quantity)
    IN  IF quantity = 0
        THEN [locals EXCEPT !.failures = @ + 1]
        ELSE [locals EXCEPT
                !.order = Append(@, FoodItem("item", food_type, d.best_before,
                                             spoilage_date, quantity * MILLI)),
                !.remaining_quantity = @ - quantity,
                !.failures = 0]

\* one pass through the body of the while loop, with draw d;
\* remaining_quantity is an integer number of whole units
LoopBody(food_type, total_quantity, d, locals) ==
    LET spoilage_date == ClampSpoilage(d.best_before, d.spoilage_date)
        quantity == DrawnQuantity(total_quantity, d.fraction,
                                  locals.remaining_quantity)
    IN  IF quantity = 0
        THEN [locals EXCEPT !.failures = @ + 1]
        ELSE [locals EXCEPT
                !.order = Append(@, FoodItem("item", food_type, d.best_before,
                                             spoilage_date, quantity * MILLI)),
                !.remaining_quantity = @ - quantity]

RECURSIVE OrderLoop(_, _, _, _, _)
\* the while loop of get_order at its n-th draw
OrderLoop(food_type, total_quantity, script, locals, n) ==
    IF ~Looping(locals) THEN locals.order
    ELSE OrderLoop(food_type, total_quantity, script,
                   LoopBody(food_type, total_quantity,
                            script[((n - 1) % Len(script)) + 1], locals),
                   n + 1)

get_order(food_type, total_quantity, script) ==
    OrderLoop(food_type, total_quantity, script, GetOrderLocals(total_quantity), 1)

----------------------------------------------------------------------------
(* OrderPolicy objects.  has_countdown tells whether the object has the
   attributes OrderPolicy.__init__ sets (frequency, days_until_next_order);
   base_policy is the reference HistoricalConsumptionPolicy keeps (0: none). *)

HISTORY_WINDOW == 7
NO_POLICY == 0

FixedConsumptionPolicy(dcp, dcnp, frequency, ssp, ssnp) ==
    [kind |-> "Fixed", has_countdown |-> TRUE,
     frequency |-> frequency, days_until_next_order |-> frequency,
     daily_consumption_perishable |-> dcp,
     daily_consumption_non_perishable |-> dcnp,
     safety_stock_perishable |-> ssp, safety_stock_non_perishable |-> ssnp,
     delta |-> 0, base_policy |-> NO_POLICY]

\* HistoricalConsumptionPolicy.__init__ sets base_policy and nothing else
HistoricalConsumptionPolicy(base_ref) ==
    [kind |-> "Historical", has_countdown |-> FALSE,
     frequency |-> 0, days_until_next_order |-> 0,
     daily_consumption_perishable |-> 0, daily_consumption_non_perishable |-> 0,
     safety_stock_perishable |-> 0, safety_stock_non_perishable |-> 0,
     delta |-> 0, base_policy |-> base_ref]

\* AdaptiveOrderPolicy.__init__ copies the fields of base; delta in thousandths
AdaptiveOrderPolicy(base, delta) ==
    [FixedConsumptionPolicy(base.daily_consumption_perishable,
                            base.daily_consumption_non_perishable,
                            base.frequency,
                            base.safety_stock_perishable,
                            base.safety_stock_non_perishable)
        EXCEPT !.kind = "Adaptive", !.delta = delta]

decrement_days_until_next_order(policy) ==
    [policy EXCEPT !.days_until_next_order = policy.days_until_next_order - 1]

\* a reset that counts the day of the order as the first of the cycle
ResetOneShort(policy) ==
    [policy EXCEPT !.days_until_next_order = policy.frequency - 1]

reset_days_until_next_order(policy) ==
    [policy EXCEPT !.days_until_next_order = policy.frequency]

\* a quantity for the days left until the next order
OrderForDaysLeft(policy, items) ==
    <<Max(0, policy.daily_consumption_perishable * policy.days_until_next_order
                + policy.safety_stock_perishable
                - get_total_by_type(items, "PERISHABLE")),
      Max(0, policy.daily_consumption_non_perishable * policy.days_until_next_order
                + policy.safety_stock_non_perishable
                - get_total_by_type(items, "NON_PERISHABLE"))>>

\* FixedConsumptionPolicy.determine_order_quantity
FixedOrderQuantity(policy, items) ==
    LET order_quantity_perishable ==
            policy.daily_consumption_perishable * policy.frequency
                + policy.safety_stock_perishable
                - get_total_by_type(items, "PERISHABLE")
        order_quantity_non_perishable ==
            policy.daily_consumption_non_perishable * policy.frequency
                + policy.safety_stock_non_perishable
                - get_total_by_type(items, "NON_PERISHABLE")
    IN  <<Max(0, order_quantity_perishable), Max(0, order_quantity_non_perishable)>>

\* household.history, one category of daily_consumption
WholeHistory(hist, food_type) ==
    [i \in 1..Len(hist) |-> hist[i].daily_consumption[food_type]]

\* household.history[-7:], one category of daily_consumption
LastWeek(hist, food_type) ==
    LET n == Len(hist)
        first == IF n > HISTORY_WINDOW THEN n - HISTORY_WINDOW + 1 ELSE 1
    IN  [i \in 1..(n - first + 1) |->
            hist[first + i - 1].daily_consumption[food_type]]

Mean(data) == SumSeq(data) \div Len(data)

\* the largest number whose square is a 32-bit integer
SQRT_LIMIT == 46340

RECURSIVE Bisect(_, _, _)
\* the largest r in lo..hi-1 with r * r <= x, for lo * lo <= x
Bisect(x, lo, hi) ==
    IF hi - lo <= 1 THEN lo
    ELSE LET mid == (lo + hi) \div 2 IN
         IF mid * mid <= x THEN Bisect(x, mid, hi) ELSE Bisect(x, lo, mid)

\* the largest r >= from with r * r <= x
Isqrt(x, from) == Bisect(x, from, SQRT_LIMIT + 1)

\* a standard deviation with n for denominator
PopulationStdDev(data) ==
    LET n == Len(data)
        mean_val == SumSeq(data) \div n
        squares == [i \in 1..n |->
                      ((data[i] - mean_val) \div MILLI) * ((data[i] - mean_val) \div MILLI)]
    IN  IF n <= 1 THEN 0 ELSE Isqrt(SumSeq(squares) \div n, 0) * MILLI

\* _calculate_std_dev: deviations are squared in whole units
calculate_std_dev(data) ==
    LET n == Len(data)
        mean_val == SumSeq(data) \div n
        squares == [i \in 1..n |->
                      ((data[i] - mean_val) \div MILLI) * ((data[i] - mean_val) \div MILLI)]
    IN  IF n <= 1 THEN 0 ELSE Isqrt(SumSeq(squares) \div (n - 1), 0) * MILLI

\* determine_order_quantity of the policy object ref: the quantities and the
\* policy objects as the call leaves them
determine_order_quantity(pols, ref, items, hist) ==
    LET policy == pols[ref] IN
    CASE policy.kind = "Fixed" ->
            [quantity |-> FixedOrderQuantity(policy, items), policies |-> pols]
      [] policy.kind = "Historical" ->
            IF Len(hist) < HISTORY_WINDOW
            THEN [quantity |-> FixedOrderQuantity(pols[policy.base_policy], items),
                  policies |-> pols]
            ELSE LET base == [pols[policy.base_policy] EXCEPT
                        !.daily_consumption_perishable =
                            Mean(LastWeek(hist, "PERISHABLE")),
                        !.daily_consumption_non_perishable =
                            Mean(LastWeek(hist, "NON_PERISHABLE"))]
                 IN  [quantity |-> FixedOrderQuantity(base, items),
                      policies |-> [pols EXCEPT ![policy.base_policy] = base]]
      [] OTHER ->
            IF Len(hist) < HISTORY_WINDOW
            THEN [quantity |-> FixedOrderQuantity(policy, items), policies |-> pols]
            ELSE LET adapted == [policy EXCEPT
                        !.daily_consumption_perishable =
                            SumSeq(LastWeek(hist, "PERISHABLE")) \div HISTORY_WINDOW,
                        !.daily_consumption_non_perishable =
                            SumSeq(LastWeek(hist, "NON_PERISHABLE")) \div HISTORY_WINDOW,
                        !.safety_stock_perishable =
                            (policy.delta * (calculate_std_dev(
                                LastWeek(hist, "PERISHABLE")) \div MILLI)),
                        !.safety_stock_non_perishable =
                            (policy.delta * (calculate_std_dev(
                                LastWeek(hist, "NON_PERISHABLE")) \div MILLI))]
                 IN  [quantity |-> FixedOrderQuantity(adapted, items),
                      policies |-> [pols EXCEPT ![ref] = adapted]]


----------------------------------------------------------------------------
(* Household *)

ZeroDaily ==
    [meals_eaten_today |-> 0, daily_consumption |-> ZeroWeights,
     daily_emergency_takeouts |-> 0, daily_plate_waste |-> 0,
     daily_leftovers_generated |-> 0]

LEFTOVER_HORIZON == 2

RECURSIVE AddPantryConsumption(_, _)
\* a count of what was eaten from the pantry only
AddPantryConsumption(daily_consumption, consumption) ==
    IF consumption = <<>> THEN daily_consumption
    ELSE LET c == Head(consumption) IN
         AddPantryConsumption(
            IF IsPantryFood(c)
            THEN [daily_consumption EXCEPT ![c.item.food_type] = @ + c.take]
            ELSE daily_consumption,
            Tail(consumption))

RECURSIVE AddConsumption(_, _)
\* daily_consumption after the loop over the (food_item, amount) pairs
AddConsumption(daily_consumption, consumption) ==
    IF consumption = <<>> THEN daily_consumption
    ELSE LET c == Head(consumption) IN
         AddConsumption(
            [daily_consumption EXCEPT ![c.item.food_type] = @ + c.take],
            Tail(consumption))

\* a day that does not count its takeout
TakeoutUncounted(consumption) == 0

RECURSIVE TakeoutAmount(_)
TakeoutAmount(consumption) ==
    IF consumption = <<>> THEN 0
    ELSE (IF Head(consumption).item.name = EMERGENCY_TAKEOUT
          THEN Head(consumption).take ELSE 0) + TakeoutAmount(Tail(consumption))

\* what one pass of the loop over the planned meals went through: the mass
\* planned, the pantry it found, the pattern planned, what was selected per
\* category, what consume returned, the pantry as consume left it and the
\* leftovers computed
MealPass(total_grams, items, patterns, r, leftovers_here) ==
    [total_grams |-> total_grams, items |-> items, patterns |-> patterns,
     chosen_foods |-> r.chosen_foods, consumption |-> r.foods_to_eat,
     raised |-> r.raised, left |-> r.items, leftovers_here |-> leftovers_here]

\* a fridge that gets a leftover item after every meal
StoreLeftoversAlways(items, leftovers_here) ==
    add_item(items, FoodItem("leftover", "LEFTOVER", LEFTOVER_HORIZON,
                             LEFTOVER_HORIZON, leftovers_here))

\* put the leftovers in the fridge
StoreLeftovers(items, leftovers_here) ==
    IF leftovers_here > 0
    THEN add_item(items, FoodItem("leftover", "LEFTOVER", LEFTOVER_HORIZON,
                                  LEFTOVER_HORIZON, leftovers_here))
    ELSE items

\* the body of the loop of daily_step over the planned meals, for one meal:
\* the set of [items, daily, raised, meal] it can end with
MealStep(cfg, items, d, total_grams) ==
    LET patterns == plan_meal(cfg.meal_planning_strategy, items, total_grams) IN
    {   IF r.raised
        THEN [items |-> r.items, daily |-> d, raised |-> TRUE,
              meal |-> MealPass(total_grams, items, patterns, r, 0)]
        ELSE
        LET consumption == r.foods_to_eat
            plate_waste == compute_plate_waste(consumption, cfg.waste_percentage)
            leftovers_here == compute_leftovers(consumption, cfg.leftover_percentage)
        IN  [items |-> StoreLeftovers(r.items, leftovers_here),
             daily |->
                [meals_eaten_today |-> d.meals_eaten_today + 1,
                 daily_consumption |->
                    AddConsumption(d.daily_consumption, consumption),
                 daily_emergency_takeouts |->
                    d.daily_emergency_takeouts + TakeoutAmount(consumption),
                 daily_plate_waste |-> d.daily_plate_waste + plate_waste,
                 daily_leftovers_generated |->
                    d.daily_leftovers_generated
                        + (IF leftovers_here > 0 THEN leftovers_here ELSE 0)],
             raised |-> FALSE,
             meal |-> MealPass(total_grams, items, patterns, r, leftovers_here)]
        : r \in MealConsume(items, patterns, cfg.consumption_strategy)}

RECURSIVE MealsLoop(_, _, _, _)
\* the set of [items, daily, raised, meals] the loop can end with, meals
\* listing its passes
MealsLoop(cfg, items, d, meals_today) ==
    IF meals_today = <<>>
    THEN {[items |-> items, daily |-> d, raised |-> FALSE, meals |-> <<>>]}
    ELSE UNION {IF m.raised
                THEN {[items |-> m.items, daily |-> m.daily, raised |-> TRUE,
                       meals |-> <<m.meal>>]}
                ELSE {[rest EXCEPT !.meals = <<m.meal>> \o @] :
                      rest \in MealsLoop(cfg, m.items, m.daily, Tail(meals_today))}
                : m \in MealStep(cfg, items, d, Head(meals_today))}

\* an order that goes into the pantry a day older
DeliverAged(items, perishable_order, non_perishable_order) ==
    add_items(add_items(items, Aged(perishable_order)), Aged(non_perishable_order))

\* the two loops that add the ordered items to the pantry
Deliver(items, perishable_order, non_perishable_order) ==
    add_items(add_items(items, perishable_order), non_perishable_order)

\* the ordering part of daily_step: the set of [policies, items,
\* total_perishable_bought, total_nonperishable_bought, ordered, raised],
\* ordered telling whether the order branch was taken to its end
OrderingStep(cfg, pols, ref, items, hist) ==
    LET policy == pols[ref]
        none(ps, raised) ==
            [policies |-> ps, items |-> items, total_perishable_bought |-> 0,
             total_nonperishable_bought |-> 0, ordered |-> FALSE,
             raised |-> raised, quantity |-> <<0, 0>>, records |-> <<>>,
             perishable_order |-> <<>>, non_perishable_order |-> <<>>]
    IN
    IF ~policy.has_countdown THEN {none(pols, TRUE)}
    ELSE
    LET pols1 == [pols EXCEPT ![ref] = decrement_days_until_next_order(policy)] IN
    IF pols1[ref].days_until_next_order # 0 THEN {none(pols1, FALSE)}
    ELSE
    LET q == determine_order_quantity(pols1, ref, items, hist) IN
    IF ~cfg.has_grocery_store THEN {none(q.policies, TRUE)}
    ELSE
    {   LET perishable_order == get_order("PERISHABLE", q.quantity[1], sp)
            non_perishable_order == get_order("NON_PERISHABLE", q.quantity[2], snp)
        IN  [policies |->
                [q.policies EXCEPT ![ref] = reset_days_until_next_order(@)],
             items |-> Deliver(items, perishable_order, non_perishable_order),
             total_perishable_bought |-> SumSeq(Quantities(perishable_order)),
             total_nonperishable_bought |->
                SumSeq(Quantities(non_perishable_order)),
             ordered |-> TRUE,
             raised |-> FALSE,
             quantity |-> q.quantity, records |-> hist,
             perishable_order |-> perishable_order,
             non_perishable_order |-> non_perishable_order]
        : sp \in DrawScripts.PERISHABLE, snp \in DrawScripts.NON_PERISHABLE}

DailyRecord(d, o, log, day) ==
    [meals_eaten_today |-> d.meals_eaten_today,
     daily_consumption |-> d.daily_consumption,
     emergency_takeouts |-> d.daily_emergency_takeouts,
     total_perishable_bought |-> o.total_perishable_bought,
     total_nonperishable_bought |-> o.total_nonperishable_bought,
     expired_discards |-> SumTypes(log.expired_discards[day]),
     strategy_discards |-> SumTypes(log.strategy_discards[day]),
     total_food_stored |-> get_total(o.items),
     perishables_stored |-> get_total_by_type(o.items, "PERISHABLE"),
     non_perishables_stored |-> get_total_by_type(o.items, "NON_PERISHABLE"),
     leftovers_stored |-> get_total_by_type(o.items, "LEFTOVER"),
     daily_plate_waste |-> d.daily_plate_waste,
     daily_leftovers_generated |-> d.daily_leftovers_generated]


----------------------------------------------------------------------------
(* Construction.  References to OrderPolicy objects are numbers:
   DEFAULT_POLICY is the object the default argument of Household.__init__
   builds once, when the class is defined; BaseRef(h) is the
   FixedConsumptionPolicy a caller builds for household h, PolicyRef(h) the
   Historical or Adaptive object wrapped around it. *)

DEFAULT_POLICY == 1
BaseRef(h) == 2 * h
PolicyRef(h) == 2 * h + 1

DefaultOrderPolicy ==
    FixedConsumptionPolicy(20000 * MILLI, 20000 * MILLI, 7, 0, 0)

FreshFirstStrategy == [kind |-> "FreshFirst", proportion_perishables |-> 0]
ProportionalConsumptionStrategy(p) ==
    [kind |-> "Proportional", proportion_perishables |-> p]

OrderArg(kind, frequency, rate, safety_stock) ==
    [kind |-> kind, frequency |-> frequency, rate |-> rate,
     safety_stock |-> safety_stock]
DefaultOrderArg == OrderArg("Default", 0, 0, 0)

\* the arguments of Household.__init__ left at their defaults, with a store
DefaultArgs ==
    [adults |-> 1, children |-> 0,
     meal_planning_strategy |-> FreshFirstStrategy,
     consumption_strategy |-> "Basic",
     pantry_strategy |-> "Lax",
     order |-> DefaultOrderArg,
     has_grocery_store |-> TRUE,
     leftover_percentage |-> 0,
     waste_percentage |-> 0,
     stock |-> <<>>]

PolicyRefs(cfgs) ==
    {DEFAULT_POLICY}
        \cup {BaseRef(h) : h \in {g \in DOMAIN cfgs : cfgs[g].order.kind # "Default"}}
        \cup {PolicyRef(h) : h \in {g \in DOMAIN cfgs :
                                    cfgs[g].order.kind \in {"Historical", "Adaptive"}}}

BasePolicyOf(arg) ==
    FixedConsumptionPolicy(arg.rate, arg.rate, arg.frequency,
                           arg.safety_stock, arg.safety_stock)

ADAPTIVE_DELTA == 1960

PolicyObjects(cfgs) ==
    [r \in PolicyRefs(cfgs) |->
        IF r = DEFAULT_POLICY THEN DefaultOrderPolicy
        ELSE LET h == r \div 2
                 arg == cfgs[h].order
             IN  IF r = BaseRef(h) THEN BasePolicyOf(arg)
                 ELSE IF arg.kind = "Historical"
                 THEN HistoricalConsumptionPolicy(BaseRef(h))
                 ELSE AdaptiveOrderPolicy(BasePolicyOf(arg), ADAPTIVE_DELTA)]

OrderPolicyRef(h, arg) ==
    CASE arg.kind = "Default" -> DEFAULT_POLICY
      [] arg.kind = "Fixed" -> BaseRef(h)
      [] OTHER -> PolicyRef(h)

\* the households cfgs describes, constructed and stocked
Constructed(cfgs) ==
    /\ config = cfgs
    /\ items_by_type = [h \in DOMAIN cfgs |-> add_items(EmptyItems, cfgs[h].stock)]
    /\ waste_log = [h \in DOMAIN cfgs |-> EmptyWasteLog]
    /\ current_day = [h \in DOMAIN cfgs |-> 0]
    /\ weekly_meals = [h \in DOMAIN cfgs |-> [weeks |-> 0, days |-> <<>>]]
    /\ history = [h \in DOMAIN cfgs |-> <<>>]
    /\ daily = [h \in DOMAIN cfgs |-> ZeroDaily]
    /\ order_policy = [h \in DOMAIN cfgs |-> OrderPolicyRef(h, cfgs[h].order)]
    /\ policies = PolicyObjects(cfgs)
    /\ call = [op |-> "init", h |-> 0, raised |-> "none"]

Households == DOMAIN config

\* the order policy object of household h
Policy(h) == policies[order_policy[h]]

\* the ways a call ends
NO_ERROR == "none"
INDEX_ERROR == "IndexError: pop from empty list"
VALUE_ERROR == "ValueError: Cannot consume more than the available quantity."
NO_COUNTDOWN == "AttributeError: days_until_next_order"
NO_STORE == "AttributeError: get_order"

----------------------------------------------------------------------------
(* Calls made on a Pantry and on a Meal built on it *)

StockHorizons == {<<1, 1>>, <<1, 2>>, <<2, 2>>}
MealHorizons == {<<1, 1>>, <<2, 2>>}
StockQuantities == {1, 3}
MealAmounts == {0, 2, 4}
\* consumption patterns set on a Meal: one category, or all three
MealPatterns ==
    {[t \in FoodType |-> IF t = u THEN a ELSE 0] : u \in FoodType, a \in MealAmounts}
        \cup {[t \in FoodType |-> 2]}

PantrySize(h) ==
    Len(items_by_type[h]["LEFTOVER"]) + Len(items_by_type[h]["PERISHABLE"])
        + Len(items_by_type[h]["NON_PERISHABLE"])

\* Pantry.add_item with an item of one of the horizons given; callers stock
\* a pantry before they step it or eat from it
AddItemOf(h, horizons) ==
    /\ call.op \in {"init", "add_item"}
    /\ PantrySize(h) < MaxItems
    /\ \E t \in FoodType, hz \in horizons, q \in StockQuantities :
        /\ ~FoodItemRaises(hz[1], hz[2])
        /\ LET item == FoodItem("item", t, hz[1], hz[2], q) IN
            /\ items_by_type' = [items_by_type EXCEPT ![h] = add_item(@, item)]
            /\ call' = [op |-> "add_item", h |-> h, raised |-> NO_ERROR, item |-> item]
    /\ UNCHANGED <<waste_log, current_day, household_vars>>

\* stocking a pantry that will be stepped
AddItem(h) == AddItemOf(h, StockHorizons)

\* stocking a pantry that will be eaten from
AddFood(h) == AddItemOf(h, MealHorizons)

PantryStep(h) ==
    /\ current_day[h] < MaxPantryDay
    /\ \E strategy \in PantryStrategies :
        LET loc == StepLocals(items_by_type[h], strategy)
            day == current_day[h] + 1
        IN  /\ current_day' = [current_day EXCEPT ![h] = day]
            /\ waste_log' = [waste_log EXCEPT ![h] = StepWasteLog(@, day, loc)]
            /\ items_by_type' = [items_by_type EXCEPT ![h] = StepItems(loc)]
            /\ call' = [op |-> "step", h |-> h, raised |-> NO_ERROR,
                        strategy |-> strategy, locals |-> loc]
    /\ UNCHANGED household_vars

Consume(h) ==
    /\ \E strategy \in ConsumptionStrategies, patterns \in MealPatterns :
        \E r \in MealConsume(items_by_type[h], patterns, strategy) :
            /\ items_by_type' = [items_by_type EXCEPT ![h] = r.items]
            /\ call' = [op |-> "consume", h |-> h,
                        raised |-> IF r.raised THEN VALUE_ERROR ELSE NO_ERROR,
                        strategy |-> strategy, patterns |-> patterns,
                        chosen_foods |-> r.chosen_foods, ret |-> r.foods_to_eat]
    /\ UNCHANGED <<waste_log, current_day, household_vars>>

\* pantry.reset()
Reset(h) ==
    LET pantry == reset([items_by_type |-> items_by_type[h],
                         waste_log |-> waste_log[h],
                         current_day |-> current_day[h]])
    IN  /\ items_by_type' = [items_by_type EXCEPT ![h] = pantry.items_by_type]
        /\ waste_log' = [waste_log EXCEPT ![h] = pantry.waste_log]
        /\ current_day' = [current_day EXCEPT ![h] = pantry.current_day]
        /\ call' = [op |-> "reset", h |-> h, raised |-> NO_ERROR,
                    items |-> items_by_type[h]]
        /\ UNCHANGED household_vars

InitPantry == Constructed([h \in {1} |-> DefaultArgs])

NextPantry ==
    \E h \in Households :
        \/ AddItem(h)
        \/ PantryStep(h)

NextMeal ==
    \E h \in Households :
        \/ AddFood(h)
        \/ Consume(h)

\* a pantry that is stocked and stepped
SpecPantry == InitPantry /\ [][NextPantry]_vars

NextReset ==
    \E h \in Households :
        \/ AddItem(h)
        \/ PantryStep(h)
        \/ Reset(h)

\* a pantry that is stocked, stepped and reset
SpecReset == InitPantry /\ [][NextReset]_vars

\* a pantry that is stocked and eaten from
SpecMeal == InitPantry /\ [][NextMeal]_vars


----------------------------------------------------------------------------
(* Calls made on a Household *)

MaxDay == 8      \* daily_step calls that reach Pantry.step, per household
MaxWeeks == 2    \* start_of_week calls, per household

\* start_of_week calls so far are not program state: the bound on them is
\* kept with the weekly meals, as the number of weeks generated.  Callers
\* start a week when the meals of the last one are used up.
StartOfWeek(h) ==
    /\ weekly_meals[h].weeks < MaxWeeks
    /\ weekly_meals[h].days = <<>>
    /\ \E week \in WeekMenus :
        weekly_meals' = [weekly_meals EXCEPT ![h] =
            [weeks |-> @.weeks + 1,
             days |-> generate_weekly_meals(config[h].adults, config[h].children,
                                            week)]]
    /\ call' = [op |-> "start_of_week", h |-> h, raised |-> NO_ERROR]
    /\ UNCHANGED <<pantry_vars, history, daily, config, order_policy, policies>>

\* a history whose records all share the daily_consumption mapping of the
\* household
ShareConsumption(hist, daily_record) ==
    [i \in 1..Len(hist) + 1 |->
        IF i <= Len(hist)
        THEN [hist[i] EXCEPT !.daily_consumption = daily_record.daily_consumption]
        ELSE daily_record]

\* self.history.append(daily_record): the counters of the record were
\* assigned anew at the start of this daily_step, no earlier record holds them
AppendRecord(hist, daily_record) == Append(hist, daily_record)

\* a history that holds the consumption of the day when the order is decided
RecordsWithToday(hist, d) ==
    Append(hist, [daily_consumption |-> d.daily_consumption])

\* household.history as determine_order_quantity finds it: the record of
\* the day is appended after the ordering part
RecordsAtOrder(hist, d) == hist

\* every way one daily_step of household h can end: the new value of each
\* part of the state, the error raised and the record returned
DailyStepResults(h) ==
    LET cfg == config[h]
        same == [items |-> items_by_type[h], waste_log |-> waste_log[h],
                 current_day |-> current_day[h], days |-> weekly_meals[h].days,
                 history |-> history[h], daily |-> ZeroDaily,
                 policies |-> policies, raised |-> NO_ERROR, ordered |-> FALSE,
                 ret |-> ZeroDaily,
                 \* what the call went through: the passes of the meal loop,
                 \* the pantry after it, the locals of Pantry.step, the
                 \* pantry after it and the ordering part
                 meals |-> <<>>, eaten |-> items_by_type[h],
                 locals |-> StepLocals(EmptyItems, cfg.pantry_strategy),
                 aged |-> items_by_type[h],
                 order |-> [quantity |-> <<0, 0>>, records |-> <<>>,
                            perishable_order |-> <<>>,
                            non_perishable_order |-> <<>>]]
    IN
    IF weekly_meals[h].days = <<>> THEN {[same EXCEPT !.raised = INDEX_ERROR]}
    ELSE
    LET meals_today == Head(weekly_meals[h].days)
        popped == [same EXCEPT !.days = Tail(weekly_meals[h].days)]
    IN
    UNION {
        IF m.raised
        THEN {[popped EXCEPT !.items = m.items, !.daily = m.daily,
                             !.raised = VALUE_ERROR,
                             !.meals = m.meals, !.eaten = m.items,
                             !.aged = m.items]}
        ELSE
        LET loc == StepLocals(m.items, cfg.pantry_strategy)
            day == current_day[h] + 1
            log == StepWasteLog(waste_log[h], day, loc)
            stepped == [popped EXCEPT !.items = StepItems(loc), !.daily = m.daily,
                                      !.waste_log = log, !.current_day = day,
                                      !.meals = m.meals, !.eaten = m.items,
                                      !.locals = loc, !.aged = StepItems(loc)]
        IN
        {   IF o.raised
            THEN [stepped EXCEPT !.policies = o.policies,
                    !.raised = IF policies[order_policy[h]].has_countdown
                               THEN NO_STORE ELSE NO_COUNTDOWN]
            ELSE
            LET daily_record == DailyRecord(m.daily, o, log, day) IN
            [stepped EXCEPT !.items = o.items, !.policies = o.policies,
                            !.history = AppendRecord(history[h], daily_record),
                            !.ordered = o.ordered, !.ret = daily_record,
                            !.order = [quantity |-> o.quantity,
                                       records |-> o.records,
                                       perishable_order |-> o.perishable_order,
                                       non_perishable_order |->
                                            o.non_perishable_order]]
            : o \in OrderingStep(cfg, policies, order_policy[h], stepped.items,
                                 RecordsAtOrder(history[h], m.daily))}
        : m \in MealsLoop(cfg, items_by_type[h], ZeroDaily, meals_today)}

\* the state a daily_step of household h leaves when it ends as r
DailyStepEffect(h, r) ==
    /\ items_by_type' = [items_by_type EXCEPT ![h] = r.items]
    /\ waste_log' = [waste_log EXCEPT ![h] = r.waste_log]
    /\ current_day' = [current_day EXCEPT ![h] = r.current_day]
    /\ weekly_meals' = [weekly_meals EXCEPT ![h].days = r.days]
    /\ history' = [history EXCEPT ![h] = r.history]
    /\ daily' = [daily EXCEPT ![h] = r.daily]
    /\ policies' = r.policies
    /\ UNCHANGED <<config, order_policy>>

\* what the caller and the ordering part saw of a daily_step
DailyStepCall(h, r) ==
    [op |-> "daily_step", h |-> h, raised |-> r.raised,
     meals_today |-> IF weekly_meals[h].days = <<>> THEN <<>>
                     ELSE Head(weekly_meals[h].days),
     ordered |-> r.ordered, ret |-> r.ret, order |-> r.order]

DailyStep(h) ==
    /\ current_day[h] < MaxDay
    /\ \E r \in DailyStepResults(h) :
        /\ DailyStepEffect(h, r)
        /\ call' = DailyStepCall(h, r)

NextHousehold == \E h \in Households : StartOfWeek(h) \/ DailyStep(h)

----------------------------------------------------------------------------
(* The households simulated *)

GRAMS_PER_DAY == 800 * MILLI

StartingStock ==
    <<FoodItem("temp", "PERISHABLE", 2, 3, 2000 * MILLI),
      FoodItem("temp", "NON_PERISHABLE", 7, 7, 2000 * MILLI)>>

Stocks == {<<>>, StartingStock}

OrderArgs ==
    {OrderArg(k, f, GRAMS_PER_DAY, 0) : k \in {"Fixed", "Adaptive"}, f \in {1, 2, 7}}
        \cup {OrderArg("Historical", 2, GRAMS_PER_DAY, 0)}

PlanningStrategies == {FreshFirstStrategy, ProportionalConsumptionStrategy(500)}

\* households that eat first in, first out: every choice of the other
\* arguments
BasicScenarios ==
    {[DefaultArgs EXCEPT !.meal_planning_strategy = p, !.pantry_strategy = s,
                         !.order = o, !.stock = st, !.leftover_percentage = l] :
        p \in PlanningStrategies, s \in PantryStrategies, o \in OrderArgs,
        st \in Stocks, l \in {0, 250}}

\* households that pick at random what they eat: a weekly order and a stock
\* with two short-lived perishable items to pick from
RandomScenarios ==
    {[DefaultArgs EXCEPT !.meal_planning_strategy = x[1], !.pantry_strategy = x[2],
                         !.leftover_percentage = x[3],
                         !.consumption_strategy = c,
                         !.order = OrderArg("Fixed", 7, GRAMS_PER_DAY, 0),
                         !.stock = <<FoodItem("temp", "PERISHABLE", 1, 2, 1000 * MILLI)>>
                                      \o StartingStock] :
        c \in {"Random", "Mixed"},
        x \in ({FreshFirstStrategy} \X PantryStrategies \X {0, 250})
                \cup {<<ProportionalConsumptionStrategy(500), "Lax", 0>>}}

Scenarios == BasicScenarios \cup RandomScenarios

Init == \E cfg \in Scenarios : Constructed([h \in {1} |-> cfg])

Next == NextHousehold

Spec == Init /\ [][Next]_vars


\* two households built with the default policy arguments of the
\* constructor and a grocery store
InitTwo == Constructed([h \in {1, 2} |-> DefaultArgs])

SpecTwo == InitTwo /\ [][Next]_vars

----------------------------------------------------------------------------
(* Calls on an order policy from outside daily_step: callers append their
   own records to household.history, decrement the countdown and ask for
   the order quantity *)

MaxRecords == 8          \* records appended to a history by a caller

\* the policy of the order tests, in grams: rates, frequency, safety stocks
TestOrderArg == OrderArg("Fixed", 7, 1800 * MILLI, 1800 * MILLI)

\* the PERISHABLE and NON_PERISHABLE consumption of an appended record
RecordedConsumptions == {<<1500 * MILLI, 1500 * MILLI>>, <<2100 * MILLI, 1500 * MILLI>>}

\* pantries the quantity is asked for: empty, below and above the target
OrderStocks ==
    {<<>>,
     <<FoodItem("test1", "PERISHABLE", 100, 100, 3000 * MILLI),
       FoodItem("test2", "NON_PERISHABLE", 100, 100, 20000 * MILLI)>>}

OrderScenarios ==
    {[DefaultArgs EXCEPT !.order = [TestOrderArg EXCEPT !.kind = k], !.stock = st] :
        k \in {"Fixed", "Historical", "Adaptive"}, st \in OrderStocks}

\* household.history.append({"daily_consumption": {...}})
AppendConsumption(h) ==
    /\ Len(history[h]) < MaxRecords
    /\ \E c \in RecordedConsumptions :
        /\ history' = [history EXCEPT ![h] =
                Append(@, DailyRecord(
                    [ZeroDaily EXCEPT !.daily_consumption =
                        [ZeroWeights EXCEPT !["PERISHABLE"] = c[1],
                                            !["NON_PERISHABLE"] = c[2]]],
                    [total_perishable_bought |-> 0, total_nonperishable_bought |-> 0,
                     items |-> items_by_type[h]],
                    [expired_discards |-> <<ZeroWeights>>,
                     strategy_discards |-> <<ZeroWeights>>], 1))]
        /\ call' = [op |-> "append", h |-> h, raised |-> NO_ERROR]
    /\ UNCHANGED <<pantry_vars, weekly_meals, daily, config, order_policy, policies>>

\* policy.decrement_days_until_next_order(), by a caller before it asks
Decrement(h) ==
    /\ call.op \in {"init", "decrement"}
    /\ Policy(h).has_countdown
    /\ Policy(h).days_until_next_order > Policy(h).frequency - 2
    /\ policies' = [policies EXCEPT ![order_policy[h]] =
                        decrement_days_until_next_order(@)]
    /\ call' = [op |-> "decrement", h |-> h, raised |-> NO_ERROR]
    /\ UNCHANGED <<pantry_vars, weekly_meals, history, daily, config, order_policy>>

\* household.order_policy.determine_order_quantity(household)
DetermineOrderQuantity(h) ==
    LET q == determine_order_quantity(policies, order_policy[h],
                                      items_by_type[h], history[h])
    IN  /\ policies' = q.policies
        /\ call' = [op |-> "determine_order_quantity", h |-> h,
                    raised |-> NO_ERROR, ret |-> q.quantity]
        /\ UNCHANGED <<pantry_vars, weekly_meals, history, daily, config, order_policy>>

InitOrder == \E cfg \in OrderScenarios : Constructed([h \in {1} |-> cfg])

NextOrder ==
    \E h \in Households :
        \/ AppendConsumption(h)
        \/ Decrement(h)
        \/ DetermineOrderQuantity(h)

SpecOrder == InitOrder /\ [][NextOrder]_vars

----------------------------------------------------------------------------
(* SpecStore: one GroceryStore.get_order call at a time, a pass through its
   while loop per step, every draw chosen freely.  The call record holds the
   locals of the running call; draws counts the passes made and zero_run
   the zero-quantity draws made in a row up to now. *)

DATE_ERROR == "ValueError: Cannot have best before longer than spoilage date"

\* the quantities asked for: below one unit, between one and two units, a
\* few units, ten units
StoreQuantities == {MILLI \div 2, 1500, 3700, 10 * MILLI}

\* where a draw of uniform(0.1*total, 0.5*total) falls, in thousandths
StoreFractions == {100, 250, 500}

\* the two Gaussian draws <<best_before, spoilage_date>>, as integers
StoreHorizons == {<<3, 2>>, <<-1, 5>>}

\* store.get_order(food_type, total_quantity) up to its while loop
StartGetOrder ==
    /\ call.op = "init" \/ (call.op = "get_order" /\ call.returned)
    /\ \E food_type \in {"PERISHABLE", "NON_PERISHABLE"},
          total_quantity \in StoreQuantities :
        call' = [op |-> "get_order", raised |-> NO_ERROR,
                 food_type |-> food_type, total_quantity |-> total_quantity,
                 locals |-> GetOrderLocals(total_quantity),
                 draws |-> 0, zero_run |-> 0,
                 returned |-> FALSE, ret |-> <<>>]
    /\ UNCHANGED <<pantry_vars, household_vars>>

\* one pass through the while loop
DrawItem ==
    /\ call.op = "get_order" /\ ~call.returned /\ call.raised = NO_ERROR
    /\ Looping(call.locals)
    /\ \E fraction \in StoreFractions, horizon \in StoreHorizons :
        LET d == Draw(fraction, horizon[1], horizon[2])
            after == LoopBody(call.food_type, call.total_quantity, d, call.locals)
            built == Len(after.order) > Len(call.locals.order)
            item == after.order[Len(after.order)]
        IN  call' = [call EXCEPT
                !.locals = after,
                !.draws = @ + 1,
                !.zero_run = IF built THEN 0 ELSE @ + 1,
                !.raised = IF built /\ FoodItemRaises(item.best_before,
                                                      item.spoilage_date)
                           THEN DATE_ERROR ELSE NO_ERROR]
    /\ UNCHANGED <<pantry_vars, household_vars>>

\* return order
ReturnOrder ==
    /\ call.op = "get_order" /\ ~call.returned /\ call.raised = NO_ERROR
    /\ ~Looping(call.locals)
    /\ call' = [call EXCEPT !.returned = TRUE, !.ret = call.locals.order]
    /\ UNCHANGED <<pantry_vars, household_vars>>

InitStore == Constructed([h \in {1} |-> DefaultArgs])

NextStore == StartGetOrder \/ DrawItem \/ ReturnOrder

SpecStore == InitStore /\ [][NextStore]_vars

\* a call that has started runs on: each pass of the loop is made, and the
\* return is reached when the loop is left
SpecStoreFair == SpecStore /\ WF_vars(DrawItem) /\ WF_vars(ReturnOrder)

----------------------------------------------------------------------------
(* SpecPlan: a pantry is stocked as in tests/test_plannedmeal_to_meal.py and
   a planning strategy is asked for the meal of a planned mass. *)

MaxPlanItems == 3    \* items stocked before a meal is planned

\* the quantities of the items stocked
PlanQuantities == {200 * MILLI, 300 * MILLI, 500 * MILLI}

\* PlannedMeal(total_grams)
PlannedMasses == {0, 100 * MILLI, 500 * MILLI, 900 * MILLI, 1500 * MILLI}

\* pantry.add_item(FoodItem(name, food_type, 1, 3, quantity))
StockFood(h) ==
    /\ call.op \in {"init", "add_item"}
    /\ PantrySize(h) < MaxPlanItems
    /\ \E t \in FoodType, q \in PlanQuantities :
        LET item == FoodItem("item", t, 1, 3, q) IN
            /\ items_by_type' = [items_by_type EXCEPT ![h] = add_item(@, item)]
            /\ call' = [op |-> "add_item", h |-> h, raised |-> NO_ERROR, item |-> item]
    /\ UNCHANGED <<waste_log, current_day, household_vars>>

\* the strategies asked: those of the households and the one of the test
PlanStrategies == PlanningStrategies \cup {ProportionalConsumptionStrategy(700)}

\* strategy.plan_meal(PlannedMeal(total_grams), household, pantry)
PlanMeal(h) ==
    /\ \E strategy \in PlanStrategies, total_grams \in PlannedMasses :
        call' = [op |-> "plan_meal", h |-> h, raised |-> NO_ERROR,
                 strategy |-> strategy, total_grams |-> total_grams,
                 ret |-> plan_meal(strategy, items_by_type[h], total_grams)]
    /\ UNCHANGED <<pantry_vars, household_vars>>

NextPlan ==
    \E h \in Households :
        \/ StockFood(h)
        \/ PlanMeal(h)

SpecPlan == InitPantry /\ [][NextPlan]_vars

----------------------------------------------------------------------------
(* SpecItem: one FoodItem is constructed, aged and eaten from by its methods.
   The call record holds the object (NoItem when the constructor raised),
   the horizons it was constructed with, the number of day_passes calls made
   on it and what is_past_best_before() and is_expired() return. *)

MaxItemDays == 4     \* day_passes calls made on one item

NoItem == [name |-> "none"]

\* the horizons offered to the constructor, negative ones included
ItemHorizons == -2..3

\* the quantities constructed and the amounts consumed
ItemQuantities == {0, MILLI, 3 * MILLI}
ItemAmounts == {0, MILLI \div 2, MILLI, 3 * MILLI}

\* what a caller sees of the object after a call
ItemCall(op, raised, item, initial, days, amount) ==
    [op |-> op, raised |-> raised, item |-> item, initial |-> initial,
     days |-> days, amount |-> amount,
     is_past_best_before |-> item # NoItem /\ is_past_best_before(item),
     is_expired |-> item # NoItem /\ is_expired(item)]

\* FoodItem(name, food_type, best_before, spoilage_date, quantity)
Construct ==
    /\ call.op = "init"
    /\ \E t \in FoodType, best_before \in ItemHorizons,
          spoilage_date \in ItemHorizons, quantity \in ItemQuantities :
        LET initial == [best_before |-> best_before, spoilage_date |-> spoilage_date]
        IN  call' = IF FoodItemRaises(best_before, spoilage_date)
                    THEN ItemCall("FoodItem", DATE_ERROR, NoItem, initial, 0, 0)
                    ELSE ItemCall("FoodItem", NO_ERROR,
                                  FoodItem("item", t, best_before, spoilage_date,
                                           quantity),
                                  initial, 0, 0)
    /\ UNCHANGED <<pantry_vars, household_vars>>

\* the last call left an object to call methods on
HasItem ==
    call.op \in {"FoodItem", "day_passes", "item_consume"} /\ call.item # NoItem

\* item.day_passes()
DayPasses ==
    /\ HasItem
    /\ call.days < MaxItemDays
    /\ call' = ItemCall("day_passes", NO_ERROR, day_passes(call.item),
                        call.initial, call.days + 1, 0)
    /\ UNCHANGED <<pantry_vars, household_vars>>

\* item.consume(amount)
ItemConsume ==
    /\ HasItem
    /\ \E amount \in ItemAmounts :
        call' = IF ConsumeRaises(call.item, amount)
                THEN ItemCall("item_consume", VALUE_ERROR, call.item,
                              call.initial, call.days, amount)
                ELSE ItemCall("item_consume", NO_ERROR,
                              FoodItemConsume(call.item, amount),
                              call.initial, call.days, amount)
    /\ UNCHANGED <<pantry_vars, household_vars>>

NextItem == Construct \/ DayPasses \/ ItemConsume

SpecItem == InitPantry /\ [][NextItem]_vars

----------------------------------------------------------------------------
(* SpecDay: the households of Spec over their first days, the call record
   holding everything a daily_step went through: the passes of its meal
   loop, the pantry after the meals, the locals of Pantry.step and the
   pantry after it. *)

MaxTracedDay == 6    \* daily_step calls followed pass by pass, per household

DailyStepTraced(h) ==
    /\ current_day[h] < MaxTracedDay
    /\ \E r \in DailyStepResults(h) :
        /\ DailyStepEffect(h, r)
        /\ call' = [meals |-> r.meals, eaten |-> r.eaten, locals |-> r.locals,
                    aged |-> r.aged] @@ DailyStepCall(h, r)

NextDay == \E h \in Households : StartOfWeek(h) \/ DailyStepTraced(h)

\* a household whose perishables are a thousandth more than a breakfast: a
\* day of one meal leaves an item that Pantry.step removes as empty
ResidueScenarios ==
    {[DefaultArgs EXCEPT !.pantry_strategy = s,
                         !.order = OrderArg("Fixed", 1, GRAMS_PER_DAY, 0),
                         !.stock = <<FoodItem("temp", "PERISHABLE", 2, 3,
                                              400 * MILLI + EMPTY_EPS)>>] :
        s \in PantryStrategies}

\* households that plan no perishables at all, or nothing but perishables
ProportionScenarios ==
    {[DefaultArgs EXCEPT !.meal_planning_strategy = ProportionalConsumptionStrategy(p),
                         !.order = OrderArg("Fixed", 2, GRAMS_PER_DAY, 0),
                         !.stock = StartingStock, !.leftover_percentage = 250] :
        p \in {0, MILLI}}

DayScenarios == Scenarios \cup ResidueScenarios \cup ProportionScenarios

InitDay == \E cfg \in DayScenarios : Constructed([h \in {1} |-> cfg])

SpecDay == InitDay /\ [][NextDay]_vars

----------------------------------------------------------------------------
(* Properties *)

\* the last call was a daily_step of h that returned a record
Stepped(h) == call.op = "daily_step" /\ call.h = h /\ call.raised = NO_ERROR

\* C1: for a household whose policy object has a frequency f >= 1, the
\* countdown starts at f and each daily_step decrements it once and resets it
\* to f when it reaches 0: after n daily_steps it is f - (n mod f), between 1
\* and f, and the n-th daily_step placed an order exactly when f divides n.
C1_CountdownCycle ==
    \A h \in Households :
        Policy(h).has_countdown =>
            LET f == Policy(h).frequency
                n == Len(history[h])
                d == Policy(h).days_until_next_order
            IN  /\ d = f - (n % f)
                /\ 1 <= d /\ d <= f
                /\ Stepped(h) => (call.ordered <=> n % f = 0)

\* the fourth daily_step of a household that orders every second day has
\* placed its second order
C1_Witness ==
    \E h \in Households :
        /\ Stepped(h) /\ call.ordered
        /\ Policy(h).frequency = 2 /\ Len(history[h]) = 4
        /\ Policy(h).days_until_next_order = 2

\* what a call of Pantry.step found, per category
Picked(loc, t, positions) == SumSeq(Quantities(PickSeq(loc.aged[t], positions, 1)))

C2_Conserved ==
    call'.op = "step" =>
        LET h == call'.h
            day == current_day'[h]
            loc == call'.locals
            emptied == SumTypes([t \in FoodType |-> Picked(loc, t, loc.empty_items[t])])
        IN  /\ get_total(items_by_type[h]) - get_total(items_by_type'[h]) - emptied
                = SumTypes(waste_log'[h].expired_discards[day])
                    + SumTypes(waste_log'[h].strategy_discards[day])
            /\ \A t \in FoodType :
                /\ loc.expired_items[t] \cap loc.strategy_discards[t] = {}
                /\ waste_log'[h].expired_discards[day][t]
                    = Picked(loc, t, loc.expired_items[t])
                /\ waste_log'[h].strategy_discards[day][t]
                    = Picked(loc, t, loc.strategy_discards[t])

\* C2: the quantity a call of Pantry.step removes from the pantry as expired
\* or strategy-discarded equals the sum of the two ledger entries it writes
\* for that day, and no item is counted in both.
C2_WasteConservation == [][C2_Conserved]_vars

\* a step under the Strict strategy that removed one expired item and one
\* item past its best-before date
C2_Witness ==
    /\ call.op = "step" /\ call.strategy = "Strict"
    /\ SumTypes(waste_log[call.h].expired_discards[current_day[call.h]]) = 3
    /\ SumTypes(waste_log[call.h].strategy_discards[current_day[call.h]]) = 3
    /\ get_total(items_by_type[call.h]) = 0

\* the quantity of the aged items of a category that satisfy Test
Weight(list, Test(_)) == SumSeq(Quantities(PickSeq(list, Positions(list, Test), 1)))

\* C3: an item that after aging has spoilage_date <= 0 and quantity above
\* the threshold is logged under expired_discards only, whatever the
\* strategy says of it; strategy_discards holds the non-expired items
\* the strategy discards.
C3_ExpiryFirst ==
    call.op = "step" =>
        LET loc == call.locals
            day == current_day[call.h]
            Expired(item) == item.quantity > EMPTY_EPS /\ is_expired(item)
            Discarded(item) ==
                /\ item.quantity > EMPTY_EPS /\ ~is_expired(item)
                /\ should_discard(call.strategy, item)
        IN  \A t \in FoodType :
                /\ \A i \in 1..Len(loc.aged[t]) :
                    Expired(loc.aged[t][i]) =>
                        i \in loc.expired_items[t] /\ i \notin loc.strategy_discards[t]
                /\ waste_log[call.h].expired_discards[day][t]
                    = Weight(loc.aged[t], Expired)
                /\ waste_log[call.h].strategy_discards[day][t]
                    = Weight(loc.aged[t], Discarded)

\* a Strict step met an item that is both expired and past its best-before
\* date
C3_Witness ==
    /\ call.op = "step" /\ call.strategy = "Strict"
    /\ \E t \in FoodType : \E i \in 1..Len(call.locals.aged[t]) :
        LET item == call.locals.aged[t][i] IN
            /\ item.quantity = 3 /\ is_expired(item) /\ is_past_best_before(item)
            /\ waste_log[call.h].expired_discards[current_day[call.h]][t] >= 3

IsSorted(list) ==
    \A i \in 1..Len(list) - 1 : list[i].spoilage_date <= list[i + 1].spoilage_date

\* C4: every category list of a pantry is in ascending order of
\* spoilage_date, whatever sequence of additions, steps, meals and orders
\* led to it.
C4_Sorted ==
    \A h \in Households : \A t \in FoodType : IsSorted(items_by_type[h][t])

\* an order was delivered into a category that then holds items of
\* different spoilage dates
C4_Witness ==
    \E h \in Households :
        /\ Stepped(h) /\ call.ordered
        /\ Len(items_by_type[h]["PERISHABLE"]) >= 3
        /\ items_by_type[h]["PERISHABLE"][1].spoilage_date
            < items_by_type[h]["PERISHABLE"][3].spoilage_date

C5_Selected ==
    call'.op = "consume" =>
        \A t \in FoodType :
            LET chosen == call'.chosen_foods[t]
                amount == call'.patterns[t]
                available == get_total_by_type(items_by_type[call'.h], t)
            IN  /\ SumSeq(Takes(chosen)) = Min(amount, available)
                /\ \A i \in 1..Len(chosen) :
                    /\ chosen[i].item.food_type = t
                    /\ chosen[i].item.name # EMERGENCY_TAKEOUT
                    /\ 0 <= chosen[i].take
                    /\ chosen[i].take <= chosen[i].item.quantity

\* C5: for an amount >= 0, select_food of the Basic, Random and Mixed
\* strategies returns pairs of items of the requested category whose amounts
\* sum to min(amount, total quantity of that category), none above the
\* quantity of its item.
C5_SelectFood == [][C5_Selected]_vars

\* a random selection ate one item whole and a part of another
C5_Witness ==
    /\ call.op = "consume" /\ call.strategy = "Random"
    /\ \E t \in FoodType :
        /\ call.patterns[t] = 4
        /\ Len(call.chosen_foods[t]) = 2
        /\ call.chosen_foods[t][1].take = 3
        /\ call.chosen_foods[t][2].take = 1
        /\ call.chosen_foods[t][2].item.quantity = 3

RECURSIVE Expected(_, _, _)
\* the selections of the categories from the i-th on, each followed by one
\* placeholder for its shortfall when it has one
Expected(chosen_foods, patterns, i) ==
    IF i > Len(TypeOrder) THEN <<>>
    ELSE LET t == TypeOrder[i]
             shortfall == patterns[t] - SumSeq(Takes(chosen_foods[t]))
         IN  chosen_foods[t]
                \o (IF shortfall > 0
                    THEN <<[item |-> [name |-> EMERGENCY_TAKEOUT,
                                      food_type |-> "PERISHABLE",
                                      best_before |-> 0, spoilage_date |-> 0,
                                      quantity |-> shortfall],
                            pos |-> 0, take |-> shortfall]>>
                    ELSE <<>>)
                \o Expected(chosen_foods, patterns, i + 1)

Placeholders(foods) == {i \in 1..Len(foods) : foods[i].item.name = EMERGENCY_TAKEOUT}

\* C6: the list choose_food_to_eat returns is, category after category, what
\* select_food took from the pantry followed, exactly when that falls short
\* of the target, by one Emergency Takeout placeholder for the difference:
\* the amounts listed for a category sum to its target.
C6_ChooseFood ==
    call.op = "consume" =>
        /\ call.ret = Expected(call.chosen_foods, call.patterns, 1)
        /\ SumSeq(Takes(call.ret)) = SumTypes(call.patterns)
        /\ \A i \in Placeholders(call.ret) :
            /\ call.ret[i].take > 0
            /\ call.ret[i].item.quantity = call.ret[i].take

\* a meal of three categories found one of them short and one of them full
C6_Witness ==
    /\ call.op = "consume"
    /\ call.patterns = [t \in FoodType |-> 2]
    /\ Cardinality(Placeholders(call.ret)) = 2
    /\ \E i \in Placeholders(call.ret) : call.ret[i].take = 1
    /\ \E i \in 1..Len(call.ret) :
        i \notin Placeholders(call.ret) /\ call.ret[i].take = 2

\* the pairs of a returned list that took from pantry items of category t
FromPantry(foods, t) ==
    SumSeq([i \in 1..Len(foods) |->
                IF foods[i].item.name # EMERGENCY_TAKEOUT /\ foods[i].item.food_type = t
                THEN foods[i].take ELSE 0])

InPantry(items, name) ==
    \E t \in FoodType : \E i \in 1..Len(items[t]) : items[t][i].name = name

C7_Consumed ==
    call'.op = "consume" =>
        LET h == call'.h IN
        /\ call'.raised = NO_ERROR
        /\ \A t \in FoodType :
            /\ get_total_by_type(items_by_type[h], t)
                    - get_total_by_type(items_by_type'[h], t)
                = FromPantry(call'.ret, t)
            /\ call'.chosen_foods[t] = <<>> => items_by_type'[h][t] = items_by_type[h][t]
            /\ \A i \in 1..Len(items_by_type'[h][t]) :
                \E j \in 1..Len(items_by_type[h][t]) :
                    LET before == items_by_type[h][t][j]
                        after == items_by_type'[h][t][i]
                    IN  /\ after.quantity <= before.quantity
                        /\ after = [before EXCEPT !.quantity = after.quantity]
        /\ ~InPantry(items_by_type'[h], EMERGENCY_TAKEOUT)

\* C7: Meal.consume lowers the total of each category by the sum of the
\* amounts selected from real items of that category, leaves the items it
\* did not select as they were, and neither subtracts the takeout
\* placeholders nor adds them to the pantry.
C7_ConsumeEffect == [][C7_Consumed]_vars

\* a meal ate a part of an item and made up the rest of another category
\* with takeout
C7_Witness ==
    /\ call.op = "consume"
    /\ Placeholders(call.ret) # {}
    /\ \E t \in FoodType :
        /\ Len(call.chosen_foods[t]) = 1
        /\ call.chosen_foods[t][1].take = 2
        /\ Len(items_by_type[call.h][t]) = 1
        /\ items_by_type[call.h][t][1].quantity = 1

Countdown(h) == Policy(h).days_until_next_order

C8_Week ==
    \A h \in Households :
        /\ (call'.op = "start_of_week" /\ call'.h = h) =>
            Len(weekly_meals'[h].days) = DAYS_PER_WEEK
        /\ (call'.op = "daily_step" /\ call'.h = h /\ call'.raised = NO_ERROR) =>
            /\ weekly_meals[h].days # <<>>
            /\ weekly_meals'[h].days = Tail(weekly_meals[h].days)
        /\ (call'.op = "daily_step" /\ call'.h = h /\ weekly_meals[h].days = <<>>) =>
            /\ call'.raised = INDEX_ERROR
            /\ items_by_type'[h] = items_by_type[h]
            /\ waste_log'[h] = waste_log[h]
            /\ current_day'[h] = current_day[h]
            /\ history'[h] = history[h]
            /\ policies' = policies

\* C8: start_of_week installs exactly seven day entries and each daily_step
\* that returns removes the first of them; a daily_step that finds none left
\* fails and leaves the pantry, the waste ledger, the day counter, the
\* history and the order countdown as they were.
C8_WeeklyMeals == [][C8_Week]_vars

\* the eighth daily_step of a week, after seven that returned
C8_Witness ==
    \E h \in Households :
        /\ call.op = "daily_step" /\ call.h = h /\ call.raised = INDEX_ERROR
        /\ weekly_meals[h].weeks = 1
        /\ Len(history[h]) = 7 /\ current_day[h] = 7

\* C9: a start_of_week or daily_step of one household leaves the pantry,
\* the waste ledger, the history, the weekly meals and the order countdown
\* of every other household unchanged, also for households constructed with
\* the default policy arguments.
C9_Independent ==
    [][\A h \in Households : \A g \in Households \ {h} :
        (call'.op \in {"start_of_week", "daily_step"} /\ call'.h = h) =>
            /\ items_by_type'[g] = items_by_type[g]
            /\ waste_log'[g] = waste_log[g]
            /\ history'[g] = history[g]
            /\ weekly_meals'[g] = weekly_meals[g]
            /\ Countdown(g)' = Countdown(g)]_vars

\* C10: with a Historical or Adaptive policy built on a base of frequency f,
\* daily_step runs the same countdown as with the base policy: it does not
\* fail for want of a countdown, and after n daily_steps the countdown is
\* f - (n mod f).
C10_VariantsCountDown ==
    \A h \in Households :
        Policy(h).kind \in {"Historical", "Adaptive"} =>
            /\ (call.op = "daily_step" /\ call.h = h) => call.raised # NO_COUNTDOWN
            /\ LET f == IF Policy(h).kind = "Historical"
                         THEN policies[Policy(h).base_policy].frequency
                         ELSE Policy(h).frequency
               IN  Policy(h).has_countdown =>
                        Countdown(h) = f - (Len(history[h]) % f)

\* C11: a meal removes no item from the category lists of the pantry,
\* whichever consumption strategy selects the food: items leave only in
\* Pantry.step and in reset.
C11_MealsKeepItems ==
    [][call'.op = "consume" =>
        \A t \in FoodType :
            Len(items_by_type'[call'.h][t]) = Len(items_by_type[call'.h][t])]_vars

\* the household was built with an empty pantry and generates no leftovers
StartsEmpty(h) == config[h].stock = <<>> /\ config[h].leftover_percentage = 0

\* what the n-th record says was planned, bought and thrown away that day
Planned(rec) == SumTypes(rec.daily_consumption)
Bought(rec) == rec.total_perishable_bought + rec.total_nonperishable_bought
Discards(rec) == rec.expired_discards + rec.strategy_discards

RECURSIVE SumOver(_, _, _, _)
\* the sum of F over the records from the i-th to the j-th
SumOver(hist, F(_), i, j) ==
    IF i > j THEN 0 ELSE F(hist[i]) + SumOver(hist, F, i + 1, j)

\* C12: a household that starts with an empty pantry, generates no leftovers
\* and orders every f days eats takeout only on days 1..f, its pantry being
\* empty until the first order is delivered at the end of day f; on the days
\* f+1..2f it eats no takeout as long as nothing of the delivery was thrown
\* away and the delivery covers what was planned since.
C12_TakeoutUntilFirstOrder ==
    \A h \in Households :
        (StartsEmpty(h) /\ Policy(h).has_countdown) =>
            LET f == Policy(h).frequency
                hist == history[h]
            IN  \A n \in 1..Len(hist) :
                    /\ n <= f => hist[n].emergency_takeouts = Planned(hist[n])
                    /\ (n <= f /\ n = Len(hist) /\ Stepped(h)) =>
                        hist[n].emergency_takeouts = SumSeq(call.meals_today)
                    /\ n < f => hist[n].total_food_stored = 0 /\ Bought(hist[n]) = 0
                    /\ n = f =>
                        /\ Bought(hist[n]) > 0
                        /\ hist[n].total_food_stored = Bought(hist[n])
                    /\ (/\ f < n /\ n <= 2 * f
                        /\ SumOver(hist, Discards, f + 1, n - 1) = 0
                        /\ SumOver(hist, Planned, f + 1, n) <= Bought(hist[f]))
                       => hist[n].emergency_takeouts = 0

\* a household that orders every second day ate takeout on its first two
\* days and from its pantry on the fourth
C12_Witness ==
    \E h \in Households :
        /\ StartsEmpty(h) /\ Policy(h).frequency = 2 /\ Len(history[h]) = 4
        /\ history[h][2].emergency_takeouts > 0
        /\ history[h][3].emergency_takeouts = 0 /\ Planned(history[h][3]) > 0
        /\ history[h][4].emergency_takeouts = 0 /\ Planned(history[h][4]) > 0

C13_Recorded ==
    \A h \in Households :
        /\ (call'.op = "daily_step" /\ call'.h = h /\ call'.raised = NO_ERROR) =>
            /\ history'[h] = Append(history[h], call'.ret)
            /\ Len(history'[h]) = current_day'[h]
        /\ ~(call'.op = "daily_step" /\ call'.h = h /\ call'.raised = NO_ERROR) =>
            history'[h] = history[h]

\* C13: a daily_step that returns appends to the history exactly the record
\* it returns and leaves the earlier records as they were; nothing else
\* changes the history, and after such a daily_step the history is as long
\* as the pantry's day counter says.
C13_OneRecordPerDay == [][C13_Recorded]_vars

\* the second record of a household differs from its first in what was
\* eaten
C13_Witness ==
    \E h \in Households :
        /\ Stepped(h) /\ Len(history[h]) = 2
        /\ history[h][1].daily_consumption # history[h][2].daily_consumption
        /\ call.ret = history[h][2]

\* the last call asked the policy of h for the order quantity
Asked(h) == call.op = "determine_order_quantity" /\ call.h = h

\* rate * frequency + safety_stock - total, floored at 0
UpToLevel(rate, frequency, safety_stock, total) ==
    IF rate * frequency + safety_stock - total > 0
    THEN rate * frequency + safety_stock - total ELSE 0

C14_Asked ==
    \A h \in Households :
        (Asked(h)' /\ Policy(h).kind = "Fixed") =>
            LET p == Policy(h) IN
            /\ call'.ret[1] =
                UpToLevel(p.daily_consumption_perishable, p.frequency,
                          p.safety_stock_perishable,
                          get_total_by_type(items_by_type[h], "PERISHABLE"))
            /\ call'.ret[2] =
                UpToLevel(p.daily_consumption_non_perishable, p.frequency,
                          p.safety_stock_non_perishable,
                          get_total_by_type(items_by_type[h], "NON_PERISHABLE"))
            /\ policies' = policies
            /\ items_by_type' = items_by_type

\* C14: FixedConsumptionPolicy.determine_order_quantity returns for each of
\* the two categories daily_rate * frequency + safety_stock - pantry total
\* of the category, floored at 0, whatever the countdown says, and changes
\* neither the policy nor the pantry.
C14_FixedQuantity == [][C14_Asked]_vars

\* a fixed policy whose countdown was decremented twice asked for a pantry
\* that holds more than the non-perishable target
C14_Witness ==
    \E h \in Households :
        /\ Asked(h) /\ Policy(h).kind = "Fixed"
        /\ Policy(h).days_until_next_order = Policy(h).frequency - 2
        /\ call.ret = <<11400 * MILLI, 0>>

RECURSIVE WindowSum(_, _, _)
\* the consumption of a category summed over the last k records
WindowSum(hist, food_type, k) ==
    IF k = 0 THEN 0
    ELSE hist[Len(hist) - k + 1].daily_consumption[food_type]
            + WindowSum(hist, food_type, k - 1)

\* rate is the mean of the last seven records, on the fixed-point grid
IsWeekMean(rate, hist, food_type) ==
    /\ HISTORY_WINDOW * rate <= WindowSum(hist, food_type, HISTORY_WINDOW)
    /\ WindowSum(hist, food_type, HISTORY_WINDOW) < HISTORY_WINDOW * (rate + 1)

\* ret is the fixed formula for the rates and safety stocks of policy p
IsFixedFormula(ret, p, items) ==
    /\ ret[1] = UpToLevel(p.daily_consumption_perishable, p.frequency,
                          p.safety_stock_perishable,
                          get_total_by_type(items, "PERISHABLE"))
    /\ ret[2] = UpToLevel(p.daily_consumption_non_perishable, p.frequency,
                          p.safety_stock_non_perishable,
                          get_total_by_type(items, "NON_PERISHABLE"))

C15_Asked ==
    \A h \in Households :
        (Asked(h)' /\ Policy(h).kind = "Historical") =>
            LET base == policies[Policy(h).base_policy]
                after == policies'[Policy(h).base_policy]
            IN  /\ items_by_type' = items_by_type
                /\ \A ref \in DOMAIN policies :
                    ref # Policy(h).base_policy => policies'[ref] = policies[ref]
                /\ IsFixedFormula(call'.ret, after, items_by_type[h])
                /\ IF Len(history[h]) < 7
                   THEN after = base
                   ELSE /\ after =
                            [base EXCEPT
                                !.daily_consumption_perishable =
                                    after.daily_consumption_perishable,
                                !.daily_consumption_non_perishable =
                                    after.daily_consumption_non_perishable]
                        /\ IsWeekMean(after.daily_consumption_perishable,
                                      history[h], "PERISHABLE")
                        /\ IsWeekMean(after.daily_consumption_non_perishable,
                                      history[h], "NON_PERISHABLE")

\* C15: HistoricalConsumptionPolicy.determine_order_quantity returns the
\* fixed formula of the wrapped policy; with fewer than 7 records it leaves
\* the wrapped policy as it is, with 7 or more it first sets the two daily
\* rates of the wrapped policy to the means of the last 7 records, the
\* safety stocks staying as they are.
C15_HistoricalQuantity == [][C15_Asked]_vars

\* eight records, the first of which differs from the seven that count
C15_Witness ==
    \E h \in Households :
        /\ Asked(h) /\ Policy(h).kind = "Historical"
        /\ Len(history[h]) = 8
        /\ history[h][1].daily_consumption["PERISHABLE"] = 2100 * MILLI
        /\ \A i \in 2..8 : history[h][i].daily_consumption["PERISHABLE"] = 1500 * MILLI
        /\ policies[Policy(h).base_policy].daily_consumption_perishable = 1500 * MILLI
        /\ call.ret = <<(7 * 1500 + 1800 - 3000) * MILLI, 0>>

RECURSIVE WindowSquares(_, _, _, _)
\* the squared deviations from mean_val, in whole units, of the consumption
\* of a category over the last k records
WindowSquares(hist, food_type, mean_val, k) ==
    IF k = 0 THEN 0
    ELSE LET d == (hist[Len(hist) - k + 1].daily_consumption[food_type] - mean_val)
                    \div MILLI
         IN  d * d + WindowSquares(hist, food_type, mean_val, k - 1)

\* safety_stock is delta times the sample standard deviation of the last
\* seven records around rate, the deviation taken on the grid of whole units
IsDeltaStdDev(safety_stock, delta, rate, hist, food_type) ==
    LET variance == WindowSquares(hist, food_type, rate, HISTORY_WINDOW)
                        \div (HISTORY_WINDOW - 1)
        std_dev == safety_stock \div delta
    IN  /\ safety_stock = delta * std_dev
        /\ std_dev >= 0
        /\ std_dev * std_dev <= variance
        /\ variance < (std_dev + 1) * (std_dev + 1)

\* the last seven records have the same consumption of a category
Steady(hist, food_type) ==
    \A i \in 1..HISTORY_WINDOW :
        hist[Len(hist) - i + 1].daily_consumption[food_type]
            = hist[Len(hist)].daily_consumption[food_type]

C16_Asked ==
    \A h \in Households :
        (Asked(h)' /\ Policy(h).kind = "Adaptive") =>
            LET before == Policy(h)
                after == Policy(h)'
                hist == history[h]
            IN  /\ items_by_type' = items_by_type
                /\ IsFixedFormula(call'.ret, after, items_by_type[h])
                /\ IF Len(hist) < 7
                   THEN after = before
                   ELSE /\ after.frequency = before.frequency
                        /\ after.days_until_next_order = before.days_until_next_order
                        /\ after.delta = before.delta
                        /\ IsWeekMean(after.daily_consumption_perishable,
                                      hist, "PERISHABLE")
                        /\ IsWeekMean(after.daily_consumption_non_perishable,
                                      hist, "NON_PERISHABLE")
                        /\ IsDeltaStdDev(after.safety_stock_perishable, before.delta,
                                         after.daily_consumption_perishable,
                                         hist, "PERISHABLE")
                        /\ IsDeltaStdDev(after.safety_stock_non_perishable,
                                         before.delta,
                                         after.daily_consumption_non_perishable,
                                         hist, "NON_PERISHABLE")
                        /\ Steady(hist, "PERISHABLE") =>
                            /\ after.safety_stock_perishable = 0
                            /\ call'.ret[1] =
                                UpToLevel(hist[Len(hist)].daily_consumption["PERISHABLE"],
                                          before.frequency, 0,
                                          get_total_by_type(items_by_type[h],
                                                            "PERISHABLE"))
                        /\ Steady(hist, "NON_PERISHABLE") =>
                            /\ after.safety_stock_non_perishable = 0
                            /\ call'.ret[2] =
                                UpToLevel(
                                    hist[Len(hist)].daily_consumption["NON_PERISHABLE"],
                                    before.frequency, 0,
                                    get_total_by_type(items_by_type[h],
                                                      "NON_PERISHABLE"))

\* C16: AdaptiveOrderPolicy.determine_order_quantity applies the fixed
\* formula; with fewer than 7 records it keeps the configured rates and
\* safety stocks, with 7 or more it first sets each rate to the mean of the
\* last 7 records and each safety stock to delta times their sample standard
\* deviation (denominator n - 1), which is 0 when the 7 records agree: the
\* order is then c * frequency less the pantry total, floored at 0.
C16_AdaptiveQuantity == [][C16_Asked]_vars

\* seven records that alternate between 1500 and 2100 for the perishables
\* and agree on the non-perishables
C16_Witness ==
    \E h \in Households :
        /\ Asked(h) /\ Policy(h).kind = "Adaptive"
        /\ Len(history[h]) = 7
        /\ \A i \in 1..7 :
            history[h][i].daily_consumption["PERISHABLE"]
                = (IF i % 2 = 1 THEN 1500 ELSE 2100) * MILLI
        /\ Policy(h).daily_consumption_perishable = 1757142
        /\ Policy(h).safety_stock_perishable = 320 * ADAPTIVE_DELTA
        /\ Policy(h).safety_stock_non_perishable = 0
        /\ call.ret[2] = 7 * 1500 * MILLI

\* get_order has returned
Returned == call.op = "get_order" /\ call.returned

\* int(total_quantity), in thousandths
Truncated(total_quantity) == (total_quantity \div MILLI) * MILLI

\* C17: the quantities of the items get_order returns sum to at most
\* int(total_quantity), and to exactly int(total_quantity) when
\* total_quantity >= 10, where no draw truncates to zero.
C17_OrderedMass ==
    Returned =>
        /\ SumSeq(Quantities(call.ret)) <= Truncated(call.total_quantity)
        /\ call.total_quantity >= 10 * MILLI =>
            /\ SumSeq(Quantities(call.ret)) = Truncated(call.total_quantity)
            /\ call.draws = Len(call.ret)

\* ten units returned in more than two items, the last one capped
C17_Witness ==
    /\ Returned
    /\ call.total_quantity = 10 * MILLI
    /\ Len(call.ret) = 3
    /\ call.ret[1].quantity = 5 * MILLI
    /\ call.ret[2].quantity = 2 * MILLI
    /\ call.ret[3].quantity = 3 * MILLI

\* C18: every item get_order builds and returns has the category asked for,
\* a whole quantity of at least 1 and a spoilage_date of at least
\* best_before + 1, whatever best_before and spoilage_date were drawn: the
\* FoodItem constructor never raises and no zero-quantity draw is returned.
C18_OrderedItems ==
    call.op = "get_order" =>
        /\ call.raised = NO_ERROR
        /\ call.returned => call.ret = call.locals.order
        /\ \A i \in 1..Len(call.locals.order) :
            LET item == call.locals.order[i]
            IN  /\ item.food_type = call.food_type
                /\ item.quantity % MILLI = 0
                /\ item.quantity >= MILLI
                /\ item.spoilage_date >= item.best_before + 1
                /\ ~FoodItemRaises(item.best_before, item.spoilage_date)

\* an order returned after a zero-quantity draw, with an item whose
\* spoilage_date was drawn below its best_before and one drawn above
C18_Witness ==
    /\ Returned
    /\ call.draws > Len(call.ret)
    /\ \E i, j \in 1..Len(call.ret) :
        /\ call.ret[i].best_before = 3 /\ call.ret[i].spoilage_date = 4
        /\ call.ret[j].best_before = -1 /\ call.ret[j].spoilage_date = 5

\* the mass asked for has been drawn
MassReached ==
    SumSeq(Quantities(call.locals.order)) >= Truncated(call.total_quantity)

\* the zero-quantity draws made in the call so far
ZeroDraws == call.draws - Len(call.locals.order)

\* C19 as stated: get_order keeps drawing until the drawn mass reaches
\* int(total_quantity) or 100 zero-quantity draws were made in a row;
\* zero-quantity draws separated by an item are not added up.
C19_ConsecutiveLimit ==
    Returned => (MassReached \/ call.zero_run = MAX_FAILURES)

C19_Drawing ==
    (call.op = "get_order" /\ ~call.returned) =>
        /\ ZeroDraws <= MAX_FAILURES
        /\ IF ~MassReached /\ ZeroDraws < MAX_FAILURES
           THEN call'.draws = call.draws + 1 /\ ~call'.returned
           ELSE call'.returned /\ call'.draws = call.draws

\* C19, amended: get_order keeps drawing until the drawn mass reaches
\* int(total_quantity) or 100 zero-quantity draws were made in the call,
\* in a row or not: an item drawn between them does not restart the count.
C19_FailureLimit == [][C19_Drawing]_vars

\* an order cut short by 100 zero-quantity draws with an item in between
C19_Witness ==
    /\ Returned
    /\ ~MassReached
    /\ ZeroDraws = MAX_FAILURES
    /\ call.zero_run < MAX_FAILURES
    /\ call.zero_run > 0
    /\ Len(call.ret) > 0

\* the last call was a plan_meal of a FreshFirstStrategy for household h
FreshFirstPlanned(h) ==
    call.op = "plan_meal" /\ call.h = h /\ call.strategy.kind = "FreshFirst"

\* C20: FreshFirstStrategy.plan_meal of a planned mass T, with L of leftovers
\* and P of perishables in the pantry, sets LEFTOVER to min(L, T), PERISHABLE
\* to min(P, T - LEFTOVER) and NON_PERISHABLE to what is left of T, whatever
\* the stock of non-perishables: the three targets add up to T.
C20_FreshFirst ==
    \A h \in Households :
        FreshFirstPlanned(h) =>
            LET L == get_total_by_type(items_by_type[h], "LEFTOVER")
                P == get_total_by_type(items_by_type[h], "PERISHABLE")
                T == call.total_grams
                pattern == call.ret
            IN  /\ pattern["LEFTOVER"] = Min(L, T)
                /\ pattern["PERISHABLE"] = Min(P, T - pattern["LEFTOVER"])
                /\ pattern["NON_PERISHABLE"]
                        = T - pattern["LEFTOVER"] - pattern["PERISHABLE"]
                /\ pattern["LEFTOVER"] + pattern["PERISHABLE"]
                        + pattern["NON_PERISHABLE"] = T

\* the pantry of the test (300 of leftovers, 500 of perishables, 200 of
\* non-perishables) and a meal of 500: 300, 200 and 0
C20_Witness ==
    \E h \in Households :
        /\ FreshFirstPlanned(h)
        /\ get_total_by_type(items_by_type[h], "LEFTOVER") = 300 * MILLI
        /\ get_total_by_type(items_by_type[h], "PERISHABLE") = 500 * MILLI
        /\ get_total_by_type(items_by_type[h], "NON_PERISHABLE") = 200 * MILLI
        /\ call.total_grams = 500 * MILLI
        /\ call.ret = [LEFTOVER |-> 300 * MILLI, PERISHABLE |-> 200 * MILLI,
                       NON_PERISHABLE |-> 0]

\* the last call was a plan_meal of a ProportionalConsumptionStrategy for h
ProportionalPlanned(h) ==
    call.op = "plan_meal" /\ call.h = h /\ call.strategy.kind = "Proportional"

\* C21: ProportionalConsumptionStrategy(p).plan_meal of a planned mass T,
\* with L of leftovers and P of perishables in the pantry, sets LEFTOVER to
\* min(L, T) and, with R = T - LEFTOVER, PERISHABLE to min(P, p * R) and
\* NON_PERISHABLE to R - PERISHABLE: a shortfall of perishables goes to the
\* non-perishables and the three targets add up to T.
C21_Proportional ==
    \A h \in Households :
        ProportionalPlanned(h) =>
            LET L == get_total_by_type(items_by_type[h], "LEFTOVER")
                P == get_total_by_type(items_by_type[h], "PERISHABLE")
                T == call.total_grams
                p == call.strategy.proportion_perishables
                pattern == call.ret
                R == T - pattern["LEFTOVER"]
            IN  /\ pattern["LEFTOVER"] = Min(L, T)
                /\ pattern["PERISHABLE"] = Min(P, (p * R) \div MILLI)
                /\ pattern["NON_PERISHABLE"] = R - pattern["PERISHABLE"]
                /\ pattern["LEFTOVER"] + pattern["PERISHABLE"]
                        + pattern["NON_PERISHABLE"] = T

\* the pantry of the test (300 of leftovers, 500 of perishables, 200 of
\* non-perishables), p = 0.7 and a meal of 500: 300, 140 and 60
C21_Witness ==
    \E h \in Households :
        /\ ProportionalPlanned(h)
        /\ call.strategy.proportion_perishables = 700
        /\ get_total_by_type(items_by_type[h], "LEFTOVER") = 300 * MILLI
        /\ get_total_by_type(items_by_type[h], "PERISHABLE") = 500 * MILLI
        /\ get_total_by_type(items_by_type[h], "NON_PERISHABLE") = 200 * MILLI
        /\ call.total_grams = 500 * MILLI
        /\ call.ret = [LEFTOVER |-> 300 * MILLI, PERISHABLE |-> 140 * MILLI,
                       NON_PERISHABLE |-> 60 * MILLI]

\* the last call was a Meal.consume of household h with the Basic strategy
BasicConsumed(h) ==
    call.op = "consume" /\ call.h = h /\ call.strategy = "Basic"

\* the items of a category are stored soonest to spoil first
SoonestFirst(category) ==
    \A i, j \in 1..Len(category) :
        i < j => category[i].spoilage_date <= category[j].spoilage_date

\* the choices are the first items of the category, in its order, each taken
\* in full except possibly the last, none for more than it holds
TakenInOrder(chosen, category) ==
    /\ Len(chosen) <= Len(category)
    /\ \A k \in 1..Len(chosen) :
        /\ chosen[k].pos = k
        /\ chosen[k].item = category[k]
        /\ chosen[k].take <= category[k].quantity
        /\ k < Len(chosen) => chosen[k].take = category[k].quantity

C22_Selected ==
    \A h \in Households :
        BasicConsumed(h)' =>
            \A t \in FoodType :
                /\ SoonestFirst(items_by_type[h][t])
                /\ TakenInOrder(call'.chosen_foods[t], items_by_type[h][t])

\* C22: BasicConsumptionStrategy.select_food walks the category in its stored
\* order, soonest to spoil first: every item before one that is given a take
\* is taken in full, only the last selected item can be taken in part, and
\* no take exceeds the item's quantity.
C22_BasicOrder == [][C22_Selected]_vars

\* two perishables, the first eaten whole and the second in part
C22_Witness ==
    \E h \in Households :
        /\ BasicConsumed(h)
        /\ Len(call.chosen_foods["PERISHABLE"]) = 2
        /\ call.chosen_foods["PERISHABLE"][1].take
                = call.chosen_foods["PERISHABLE"][1].item.quantity
        /\ call.chosen_foods["PERISHABLE"][1].item.spoilage_date
                < call.chosen_foods["PERISHABLE"][2].item.spoilage_date
        /\ call.chosen_foods["PERISHABLE"][2].take > 0
        /\ call.chosen_foods["PERISHABLE"][2].take
                < call.chosen_foods["PERISHABLE"][2].item.quantity

\* past its best-before date, not expired, not empty
Borderline(item) ==
    item.best_before <= 0 /\ item.spoilage_date > 0 /\ item.quantity > EMPTY_EPS

C23_Stepped ==
    call'.op = "step" =>
        LET h == call'.h
            day == current_day'[h]
        IN  \A t \in FoodType :
                LET aged == Aged(items_by_type[h][t]) IN
                IF call'.strategy = "Strict"
                THEN /\ SelectSeq(items_by_type'[h][t], Borderline) = <<>>
                     /\ waste_log'[h].strategy_discards[day][t]
                            = Weight(aged, Borderline)
                ELSE SelectSeq(items_by_type'[h][t], Borderline)
                        = SelectSeq(aged, Borderline)

\* C23: an item that after aging is past its best-before date, not expired
\* and above the empty threshold is removed by Pantry.step(StrictStrategy),
\* its quantity added to the day's strategy_discards entry of its category,
\* and kept with its quantity by Pantry.step(LaxStrategy).
C23_StrictAndLax == [][C23_Stepped]_vars

\* a Lax step kept an item past its best-before date
C23_Witness ==
    /\ call.op = "step" /\ call.strategy = "Lax"
    /\ \E t \in FoodType : \E i \in 1..Len(items_by_type[call.h][t]) :
        LET item == items_by_type[call.h][t][i] IN
            /\ Borderline(item) /\ item.quantity = 3
            /\ item \in {call.locals.aged[t][k] : k \in 1..Len(call.locals.aged[t])}

\* not empty and not expired
Live(item) == item.quantity > EMPTY_EPS /\ item.spoilage_date > 0

C24_Stepped ==
    (call'.op = "step" /\ call'.strategy = "Lax") =>
        LET h == call'.h
            day == current_day'[h]
        IN  /\ waste_log'[h].strategy_discards[day] = ZeroWeights
            /\ \A t \in FoodType :
                items_by_type'[h][t] = SelectSeq(Aged(items_by_type[h][t]), Live)

\* C24: Pantry.step(LaxStrategy) discards nothing for the strategy: the
\* day's strategy_discards entry is 0 in every category and the items
\* removed are the expired and the empty ones, whatever the pantry holds.
C24_LaxDiscardsNothing == [][C24_Stepped]_vars

\* a Lax step removed an expired item and kept one past its best-before date
C24_Witness ==
    /\ call.op = "step" /\ call.strategy = "Lax"
    /\ SumTypes(waste_log[call.h].expired_discards[current_day[call.h]]) = 3
    /\ \E t \in FoodType : \E i \in 1..Len(items_by_type[call.h][t]) :
        Borderline(items_by_type[call.h][t][i])

\* at or below the threshold of 0.001
Empty(item) == item.quantity <= EMPTY_EPS

C25_Stepped ==
    call'.op = "step" =>
        LET h == call'.h
            day == current_day'[h]
            Filled(item) == ~Empty(item)
        IN  \A t \in FoodType :
                LET aged == Aged(items_by_type[h][t]) IN
                /\ SelectSeq(items_by_type'[h][t], Empty) = <<>>
                /\ waste_log'[h].expired_discards[day][t]
                        + waste_log'[h].strategy_discards[day][t]
                    = Weight(aged, Filled) - get_total_by_type(items_by_type'[h], t)

\* C25: Pantry.step removes every item whose quantity is at most 0.001 as
\* empty and counts it in neither ledger entry of the day, also when the
\* item is expired or the strategy would discard it: the two entries of a
\* category add up to the quantity of the other items removed.
C25_EmptyFirst == [][C25_Stepped]_vars

\* a Strict step removed an empty item that was also expired and past its
\* best-before date, and logged nothing
C25_Witness ==
    /\ call.op = "step" /\ call.strategy = "Strict"
    /\ \E t \in FoodType :
        /\ \E i \in 1..Len(call.locals.aged[t]) :
            LET item == call.locals.aged[t][i] IN
                Empty(item) /\ item.quantity > 0 /\ is_expired(item)
                    /\ is_past_best_before(item)
        /\ items_by_type[call.h][t] = <<>>
        /\ waste_log[call.h].expired_discards[current_day[call.h]][t] = 0
        /\ waste_log[call.h].strategy_discards[current_day[call.h]][t] = 0

\* both ledgers hold the days 1..current_day, all three categories each day
C26_Ledgers(h) ==
    /\ DOMAIN waste_log[h].expired_discards = 1..current_day[h]
    /\ DOMAIN waste_log[h].strategy_discards = 1..current_day[h]
    /\ \A d \in 1..current_day[h] :
        /\ DOMAIN waste_log[h].expired_discards[d] = FoodType
        /\ DOMAIN waste_log[h].strategy_discards[d] = FoodType

C26_Stepped ==
    \A h \in Households :
        /\ C26_Ledgers(h)
        /\ (call'.op = "step" /\ call'.h = h) =>
            /\ current_day'[h] = current_day[h] + 1
            /\ C26_Ledgers(h)'
            /\ \A d \in 1..current_day[h] :
                /\ waste_log'[h].expired_discards[d] = waste_log[h].expired_discards[d]
                /\ waste_log'[h].strategy_discards[d]
                        = waste_log[h].strategy_discards[d]

\* C26: each Pantry.step advances the day counter by one and writes for the
\* new day an entry of both ledgers that holds the three categories, 0
\* included; after k steps on a new pantry the counter is k, both ledgers
\* hold exactly the days 1..k, and the entries of earlier days are unchanged.
C26_DailyEntries == [][C26_Stepped]_vars

\* two steps, the first with discards of both causes, the second with none
C26_Witness ==
    /\ call.op = "step" /\ current_day[call.h] = 2
    /\ SumTypes(waste_log[call.h].expired_discards[1]) > 0
    /\ SumTypes(waste_log[call.h].strategy_discards[1]) > 0
    /\ waste_log[call.h].expired_discards[2] = ZeroWeights
    /\ waste_log[call.h].strategy_discards[2] = ZeroWeights

\* C27: Pantry.reset empties the three category lists and leaves the waste
\* ledger, every day's entry of both causes, and the day counter as they
\* were.
C27_ResetFrame ==
    [][\A h \in Households :
        (call'.op = "reset" /\ call'.h = h) =>
            /\ items_by_type'[h] = [t \in FoodType |-> <<>>]
            /\ waste_log'[h] = waste_log[h]
            /\ current_day'[h] = current_day[h]]_vars

\* a pantry that still held an item was reset after a step that logged a
\* discard
C27_Witness ==
    /\ call.op = "reset"
    /\ get_total(call.items) = 3
    /\ current_day[call.h] = 1
    /\ get_total(items_by_type[call.h]) = 0
    /\ DOMAIN waste_log[call.h].expired_discards = {1}
    /\ SumTypes(waste_log[call.h].strategy_discards[1]) = 3

\* C28 as stated: after N calls of day_passes on a FoodItem constructed with
\* any pair of integer horizons, best_before is max(0, initial - N) and so
\* is spoilage_date.
C28_FlooredAtZero ==
    call.op = "day_passes" =>
        /\ call.item.best_before = Max(0, call.initial.best_before - call.days)
        /\ call.item.spoilage_date = Max(0, call.initial.spoilage_date - call.days)

\* a horizon after n days: lowered day by day while it is positive
HorizonAfter(initial, n) == Max(Min(0, initial), initial - n)

C28_Passed ==
    call'.op = "day_passes" =>
        /\ call'.days = call.days + 1
        /\ call'.item.best_before
                = HorizonAfter(call'.initial.best_before, call'.days)
        /\ call'.item.spoilage_date
                = HorizonAfter(call'.initial.spoilage_date, call'.days)
        /\ call'.is_expired <=> call'.item.spoilage_date <= 0
        /\ call'.is_past_best_before <=> call'.item.best_before <= 0
        /\ call'.item.quantity = call.item.quantity
        /\ call'.item.name = call.item.name
        /\ call'.item.food_type = call.item.food_type

\* C28, amended: after N calls of day_passes, a horizon constructed as
\* h >= 0 is max(0, h - N) and a horizon constructed negative is still h
\* (day_passes lowers a horizon only while it is positive); is_expired()
\* holds exactly when spoilage_date <= 0, is_past_best_before() exactly when
\* best_before <= 0, and day_passes never changes the quantity.
C28_DayPasses == [][C28_Passed]_vars

\* three days passed on an item constructed with horizons -1 and 2
C28_Witness ==
    /\ call.op = "day_passes" /\ call.days = 3
    /\ call.initial.best_before = -1 /\ call.initial.spoilage_date = 2
    /\ call.item.best_before = -1 /\ call.item.spoilage_date = 0
    /\ call.is_expired /\ call.is_past_best_before
    /\ call.item.quantity = 3 * MILLI

\* C29: FoodItem(...) with best_before > spoilage_date fails with the
\* validation error and yields no item; with best_before <= spoilage_date,
\* equality included, it yields an item with the arguments given.
C29_Construction ==
    call.op = "FoodItem" =>
        IF call.initial.best_before > call.initial.spoilage_date
        THEN call.raised = DATE_ERROR /\ call.item = NoItem
        ELSE /\ call.raised = NO_ERROR
             /\ call.item # NoItem
             /\ call.item.best_before = call.initial.best_before
             /\ call.item.spoilage_date = call.initial.spoilage_date

\* an item constructed with horizons 2 and 2
C29_Witness ==
    /\ call.op = "FoodItem" /\ call.raised = NO_ERROR
    /\ call.item.food_type = "LEFTOVER"
    /\ call.item.best_before = 2 /\ call.item.spoilage_date = 2

C30_Consumed ==
    call'.op = "item_consume" =>
        IF call'.amount > call.item.quantity
        THEN call'.raised = VALUE_ERROR /\ call'.item = call.item
        ELSE /\ call'.raised = NO_ERROR
             /\ call'.item.quantity = call.item.quantity - call'.amount
             /\ call'.item.best_before = call.item.best_before
             /\ call'.item.spoilage_date = call.item.spoilage_date

\* C30: FoodItem.consume(amount) fails with the invalid-argument error when
\* amount > quantity and leaves the quantity and both horizons as they were;
\* otherwise the quantity goes down by amount, to 0 when the whole quantity
\* is consumed, and the horizons are unchanged.
C30_ItemConsume == [][C30_Consumed]_vars

\* the whole of an aged item was consumed
C30_Witness ==
    /\ call.op = "item_consume" /\ call.raised = NO_ERROR
    /\ call.amount = 3 * MILLI
    /\ call.item.quantity = 0
    /\ call.days = 1 /\ call.item.best_before = 1

----------------------------------------------------------------------------
(* C31..C40: the parts of one daily_step *)

\* how many times x is in list
Occurrences(list, x) == Cardinality({i \in 1..Len(list) : list[i] = x})

\* the items of every category of a pantry
Stocked(items) == UNION {{items[t][i] : i \in 1..Len(items[t])} : t \in FoodType}

\* the items the household bought in the call, by category
DeliveredItems(c) ==
    [t \in FoodType |->
        CASE t = "PERISHABLE" -> c.order.perishable_order
          [] t = "NON_PERISHABLE" -> c.order.non_perishable_order
          [] OTHER -> <<>>]

\* the pantry foods a pass of the meal loop took
PantryFoods(m) ==
    {m.consumption[i] : i \in {j \in 1..Len(m.consumption) :
                                    IsPantryFood(m.consumption[j])}}

\* C31: a daily_step eats, then ages, then orders.  The first meal finds the
\* pantry as the call found it and every meal takes items as they are before
\* the aging of that day; Pantry.step ages what the meals left; what is
\* delivered is in the pantry when the call returns, next to what
\* Pantry.step kept, with the horizons it was bought with, and no meal of
\* the day found it.
C31_Phased(h) ==
    (call'.op = "daily_step" /\ call'.h = h /\ call'.raised = NO_ERROR) =>
        LET c == call' IN
        /\ Len(c.meals) = Len(c.meals_today)
        /\ c.meals # <<>> => c.meals[1].items = items_by_type[h]
        /\ \A i \in 1..Len(c.meals) :
            /\ \A f \in PantryFoods(c.meals[i]) : f.item \in Stocked(c.meals[i].items)
            /\ i > 1 =>
                \A x \in Stocked(c.meals[i].items) :
                    \/ x.food_type = "LEFTOVER"
                    \/ \E y \in Stocked(c.meals[i - 1].items) :
                        /\ y.quantity >= x.quantity
                        /\ [y EXCEPT !.quantity = x.quantity] = x
        /\ c.locals.aged = [t \in FoodType |-> Aged(c.eaten[t])]
        /\ \A t \in FoodType :
            \A x \in Stocked(items_by_type'[h]) \cup Stocked(c.aged)
                        \cup Stocked(DeliveredItems(c)) :
                Occurrences(items_by_type'[h][t], x)
                    = Occurrences(c.aged[t], x) + Occurrences(DeliveredItems(c)[t], x)

C31_MealsThenAgingThenOrder == [][\A h \in Households : C31_Phased(h)]_vars

\* a day on which an item in its last day was eaten from and an order came in
C31_Witness ==
    \E h \in Households :
        /\ Stepped(h) /\ call.ordered
        /\ call.order.perishable_order # <<>>
        /\ \E i \in 1..Len(call.meals) :
            \E f \in PantryFoods(call.meals[i]) :
                f.item.spoilage_date = 1 /\ f.take > 0
        /\ \E x \in Stocked(DeliveredItems(call)) : x \in Stocked(items_by_type[h])

\* C32: a Pantry.step keeps, one day older, every item that had two or more
\* days to its spoilage date, is not empty and is not flagged by the
\* strategy, and removes every non-empty item that was in its last day,
\* logging the quantity of those under expired_discards of the day; so an
\* item with spoilage date s stays for s - 1 steps and goes at the s-th.  No
\* item is kept with a spoilage date of 0 or less.
C32_Stepped(h) ==
    (call'.op = "step" /\ call'.h = h) =>
        LET pre == items_by_type[h]
            post == items_by_type'[h]
            day == current_day'[h]
            Lasting(item) ==
                /\ item.quantity > EMPTY_EPS
                /\ ~(call'.strategy = "Strict" /\ item.best_before <= 1)
            LastDay(item) == item.quantity > EMPTY_EPS /\ item.spoilage_date <= 1
        IN  \A t \in FoodType :
            /\ \A i \in 1..Len(pre[t]) :
                LET item == pre[t][i]
                    older == [item EXCEPT
                                !.spoilage_date = @ - 1,
                                !.best_before = IF @ > 0 THEN @ - 1 ELSE @]
                IN  /\ (item.spoilage_date >= 2 /\ Lasting(item)) =>
                        /\ Occurrences(post[t], older) >= Occurrences(pre[t], item)
                        /\ Occurrences(post[t], older) >= 1
                    /\ item.spoilage_date = 1 =>
                        Occurrences(post[t], older) = 0
            /\ waste_log'[h].expired_discards[day][t] = Weight(pre[t], LastDay)
            /\ \A i \in 1..Len(post[t]) : post[t][i].spoilage_date >= 1

C32_ExpiresAtItsDate == [][\A h \in Households : C32_Stepped(h)]_vars

\* the second step removed, as expired, an item the first step had kept
C32_Witness ==
    \E h \in Households : \E t \in FoodType :
        /\ call.op = "step" /\ call.h = h /\ current_day[h] = 2
        /\ call.locals.expired_items[t] # {}
        /\ waste_log[h].expired_discards[1][t] = 0
        /\ waste_log[h].expired_discards[2][t] > 0
        /\ items_by_type[h][t] = <<>>

\* C33: right after a Pantry.step no item of the pantry is expired, empty
\* (0.001 or less) or flagged by the strategy of the call, and each category
\* holds, in the order they had and with the quantity they had, the items
\* the step did not mark.
C33_Stepped(h) ==
    (call'.op = "step" /\ call'.h = h) =>
        LET pre == items_by_type[h]
            post == items_by_type'[h]
            Marked(item) ==
                \/ item.quantity <= EMPTY_EPS
                \/ item.spoilage_date <= 0
                \/ (call'.strategy = "Strict" /\ item.best_before <= 0)
            Kept(item) == ~Marked(item)
        IN  \A t \in FoodType :
            /\ \A i \in 1..Len(post[t]) : Kept(post[t][i])
            /\ post[t] = PickSeq(Aged(pre[t]), Positions(Aged(pre[t]), Kept), 1)
            /\ Quantities(post[t])
                = Quantities(PickSeq(pre[t], Positions(Aged(pre[t]), Kept), 1))

C33_OnlyUnmarkedLeft == [][\A h \in Households : C33_Stepped(h)]_vars

\* a step under Strict kept the second item of a category and took the
\* first, which was past its best-before date
C33_Witness ==
    \E h \in Households : \E t \in FoodType :
        /\ call.op = "step" /\ call.h = h /\ call.strategy = "Strict"
        /\ Len(items_by_type[h][t]) = 1
        /\ call.locals.strategy_discards[t] = {1}
        /\ items_by_type[h][t][1] = call.locals.aged[t][2]

\* the pantry the pass after the i-th found, or the one Pantry.step found
\* when the i-th was the last of the day
PantryAfterPass(c, i) == IF i < Len(c.meals) THEN c.meals[i + 1].items ELSE c.eaten

RECURSIVE LeftoversOfPasses(_)
LeftoversOfPasses(meals) ==
    IF meals = <<>> THEN 0
    ELSE Head(meals).leftovers_here + LeftoversOfPasses(Tail(meals))

\* C34: a meal that leaves leftovers L > 0 puts exactly one LEFTOVER item of
\* quantity L, best before 2 and spoilage date 2 into the pantry that the
\* next meal of the day is planned on, and nothing else changes between
\* the two meals; a meal that leaves none puts nothing in; the
\* daily_leftovers_generated of the day is the sum of the L of its meals.
C34_LeftoversStoredAfterEachMeal ==
    \A h \in Households :
        Stepped(h) =>
            /\ \A i \in 1..Len(call.meals) :
                LET m == call.meals[i]
                    L == m.leftovers_here
                    new == FoodItem("leftover", "LEFTOVER", 2, 2, L)
                    next == PantryAfterPass(call, i)
                IN  /\ L >= 0
                    /\ L = 0 => next = m.left
                    /\ L > 0 =>
                        /\ \A t \in FoodType \ {"LEFTOVER"} : next[t] = m.left[t]
                        /\ Len(next["LEFTOVER"]) = Len(m.left["LEFTOVER"]) + 1
                        /\ \A x \in Stocked(next) \cup Stocked(m.left) \cup {new} :
                            Occurrences(next["LEFTOVER"], x)
                                = Occurrences(m.left["LEFTOVER"], x)
                                    + (IF x = new THEN 1 ELSE 0)
            /\ call.ret.daily_leftovers_generated = LeftoversOfPasses(call.meals)

\* a meal ate from the leftovers of an earlier meal of the same day
C34_Witness ==
    \E h \in Households :
        /\ Stepped(h)
        /\ call.ret.daily_leftovers_generated > 0
        /\ \E i \in 1..Len(call.meals) : \E j \in (i + 1)..Len(call.meals) :
            /\ call.meals[i].items["LEFTOVER"] = <<>>
            /\ call.meals[i].leftovers_here > 0
            /\ \E f \in PantryFoods(call.meals[j]) :
                /\ f.take > 0
                /\ f.item = FoodItem("leftover", "LEFTOVER", 2, 2,
                                     call.meals[i].leftovers_here)

\* what holds of a get_order call at every point of its loop
C35_Bounded ==
    call.op = "get_order" =>
        LET whole == call.total_quantity \div MILLI IN
        /\ call.raised = NO_ERROR
        /\ Len(call.locals.order) <= whole
        /\ ZeroDraws <= MAX_FAILURES
        /\ call.draws <= whole + MAX_FAILURES
        /\ call.total_quantity < MILLI => call.draws = 0
        /\ Returned =>
            /\ call.ret = call.locals.order
            /\ call.total_quantity < 2 * MILLI => call.ret = <<>>
            /\ ~MassReached => ZeroDraws = MAX_FAILURES

\* C35: every get_order call returns, raising nothing, after at most
\* int(total_quantity) draws that built an item and at most 100 draws of
\* zero, whatever is drawn; a call cut short by the 100 zero draws returns
\* the items built until then, none when total_quantity is below 2, and a
\* call for less than 1 returns the empty order without a draw.
C35_Terminates ==
    /\ []C35_Bounded
    /\ (call.op = "get_order" /\ ~call.returned) ~> Returned

\* a call for one and a half units returned nothing after 100 draws of zero
C35_Witness ==
    /\ Returned
    /\ call.total_quantity = 1500
    /\ call.draws = MAX_FAILURES
    /\ call.ret = <<>>

\* the choices of a selection that are still in the category list
InList(chosen) == {i \in 1..Len(chosen) : chosen[i].pos # 0}

\* C37: no meal of a household raises the over-consumption error.  What a
\* meal selects from a category names no item of the list twice, takes from
\* each item at most the quantity it has, and never more in all than the
\* category holds; every item of the pantry has a quantity of 0 or more,
\* before and after each meal.
C37_NeverOverConsumes ==
    \A h \in Households :
        /\ call.op = "daily_step" => call.raised # VALUE_ERROR
        /\ \A x \in Stocked(items_by_type[h]) : x.quantity >= 0
        /\ (call.op = "daily_step" /\ call.h = h) =>
            \A i \in 1..Len(call.meals) :
                LET m == call.meals[i] IN
                /\ ~m.raised
                /\ \A x \in Stocked(m.items) \cup Stocked(m.left) : x.quantity >= 0
                /\ \A t \in FoodType :
                    LET chosen == m.chosen_foods[t] IN
                    /\ \A j, k \in InList(chosen) :
                        chosen[j].pos = chosen[k].pos => j = k
                    /\ \A j \in 1..Len(chosen) :
                        /\ chosen[j].take >= 0
                        /\ chosen[j].take <= chosen[j].item.quantity
                        /\ chosen[j].item \in Stocked(m.items)
                    /\ SumSeq(Takes(chosen)) <= get_total_by_type(m.items, t)
                    /\ get_total_by_type(m.left, t)
                        = get_total_by_type(m.items, t) - SumSeq(Takes(chosen))

\* a meal of a household that picks at random took all of one item and a
\* part of another of the same category
C37_Witness ==
    \E h \in Households :
        /\ Stepped(h)
        /\ config[h].consumption_strategy # "Basic"
        /\ \E i \in 1..Len(call.meals) : \E t \in FoodType :
            LET chosen == call.meals[i].chosen_foods[t] IN
            /\ Len(chosen) = 2
            /\ chosen[1].pos = 0
            /\ chosen[1].take = chosen[1].item.quantity
            /\ chosen[2].take > 0
            /\ chosen[2].take < chosen[2].item.quantity

\* the quantity left in the items the Pantry.step of the call removed as empty
Residue(c) ==
    SumSeq([k \in 1..3 |->
        SumSeq(Quantities(PickSeq(c.locals.aged[TypeOrder[k]],
                                  c.locals.empty_items[TypeOrder[k]], 1)))])

\* C36: over a daily_step the total of the pantry grows by the leftovers
\* generated and by what was bought of both categories, and falls by what
\* was eaten from the pantry (the daily consumption of all categories less
\* the emergency takeouts), by the expired and the strategy discards of the
\* day and by what was left, 0.001 or less each, in the items removed as
\* empty.
C36_Balanced(h) ==
    (call'.op = "daily_step" /\ call'.h = h /\ call'.raised = NO_ERROR) =>
        LET c == call'
            rec == c.ret
        IN  /\ get_total(items_by_type'[h])
                = get_total(items_by_type[h])
                    + rec.daily_leftovers_generated
                    + rec.total_perishable_bought
                    + rec.total_nonperishable_bought
                    - (SumTypes(rec.daily_consumption) - rec.emergency_takeouts)
                    - rec.expired_discards
                    - rec.strategy_discards
                    - Residue(c)
            /\ rec.total_food_stored = get_total(items_by_type'[h])
            /\ \A t \in FoodType : \A i \in c.locals.empty_items[t] :
                c.locals.aged[t][i].quantity <= EMPTY_EPS
                    /\ c.locals.aged[t][i].quantity >= 0

C36_MassBalance == [][\A h \in Households : C36_Balanced(h)]_vars

\* a day with takeout, leftovers, an order, a discard and an item removed
\* with something left in it
C36_Witness ==
    \E h \in Households :
        /\ Stepped(h) /\ call.ordered
        /\ call.ret.total_perishable_bought > 0
        /\ Residue(call) > 0

RECURSIVE TakenFromPantry(_, _)
\* what the passes took from pantry items of category t
TakenFromPantry(meals, t) ==
    IF meals = <<>> THEN 0
    ELSE SumSeq(Takes(Head(meals).chosen_foods[t])) + TakenFromPantry(Tail(meals), t)

\* C38: the daily_consumption of a record adds up, over the three
\* categories, to the planned mass of the meals of the day; the emergency
\* takeouts are counted under PERISHABLE, which holds them next to what was
\* taken from perishable items, and the other two categories hold what was
\* taken from pantry items of theirs and nothing else.
C38_ConsumptionByCategory ==
    \A h \in Households :
        Stepped(h) =>
            LET rec == call.ret IN
            /\ SumTypes(rec.daily_consumption) = SumSeq(call.meals_today)
            /\ rec.emergency_takeouts <= rec.daily_consumption["PERISHABLE"]
            /\ rec.daily_consumption["PERISHABLE"]
                = TakenFromPantry(call.meals, "PERISHABLE") + rec.emergency_takeouts
            /\ rec.daily_consumption["NON_PERISHABLE"]
                = TakenFromPantry(call.meals, "NON_PERISHABLE")
            /\ rec.daily_consumption["LEFTOVER"]
                = TakenFromPantry(call.meals, "LEFTOVER")

\* a day of takeout on which leftovers and non-perishables were eaten and
\* no perishable item was
C38_Witness ==
    \E h \in Households :
        /\ Stepped(h)
        /\ call.ret.emergency_takeouts > 0
        /\ call.ret.daily_consumption["PERISHABLE"] = call.ret.emergency_takeouts
        /\ call.ret.daily_consumption["NON_PERISHABLE"] > 0
        /\ call.ret.daily_consumption["LEFTOVER"] > 0

\* C39: every meal of a daily_step is planned with targets of 0 or more,
\* the LEFTOVER target no more than the leftovers in the pantry and the
\* PERISHABLE target no more than the perishables, whatever the planning
\* strategy; so both targets are met from the pantry and the takeout of a
\* meal is what its NON_PERISHABLE target lacked in stock.
C39_TakeoutForNonPerishablesOnly ==
    \A h \in Households :
        (call.op = "daily_step" /\ call.h = h) =>
            \A i \in 1..Len(call.meals) :
                LET m == call.meals[i]
                    Taken(t) == SumSeq(Takes(m.chosen_foods[t]))
                IN  /\ m.total_grams >= 0
                    /\ \A t \in FoodType : m.patterns[t] >= 0
                    /\ m.patterns["LEFTOVER"] <= get_total_by_type(m.items, "LEFTOVER")
                    /\ m.patterns["PERISHABLE"]
                        <= get_total_by_type(m.items, "PERISHABLE")
                    /\ Taken("LEFTOVER") = m.patterns["LEFTOVER"]
                    /\ Taken("PERISHABLE") = m.patterns["PERISHABLE"]
                    /\ TakeoutAmount(m.consumption)
                        = m.patterns["NON_PERISHABLE"] - Taken("NON_PERISHABLE")
                    /\ TakeoutAmount(m.consumption) > 0 =>
                        Taken("NON_PERISHABLE")
                            = get_total_by_type(m.items, "NON_PERISHABLE")

\* a meal that ate the last of the perishables, the last of the
\* non-perishables and takeout
C39_Witness ==
    \E h \in Households :
        /\ Stepped(h)
        /\ \E i \in 1..Len(call.meals) :
            LET m == call.meals[i] IN
            /\ m.patterns["PERISHABLE"] > 0
            /\ m.patterns["PERISHABLE"] = get_total_by_type(m.items, "PERISHABLE")
            /\ get_total_by_type(m.items, "NON_PERISHABLE") > 0
            /\ TakeoutAmount(m.consumption) > 0

\* the daily_consumption of category t in the seven records before the n-th
WeekBefore(hist, n, t) ==
    [i \in 1..HISTORY_WINDOW |->
        hist[n - HISTORY_WINDOW - 1 + i].daily_consumption[t]]

\* the rates and safety stocks of a policy object are those it was built with
AsConfigured(policy, arg) ==
    /\ policy.daily_consumption_perishable = arg.rate
    /\ policy.daily_consumption_non_perishable = arg.rate
    /\ policy.safety_stock_perishable = arg.safety_stock
    /\ policy.safety_stock_non_perishable = arg.safety_stock

\* the rates of a policy object are the means of the seven records before
\* the n-th
FromWeekBefore(policy, hist, n) ==
    /\ policy.daily_consumption_perishable
        = SumSeq(WeekBefore(hist, n, "PERISHABLE")) \div HISTORY_WINDOW
    /\ policy.daily_consumption_non_perishable
        = SumSeq(WeekBefore(hist, n, "NON_PERISHABLE")) \div HISTORY_WINDOW

\* C40: the n-th daily_step of a household decides its order on the n - 1
\* records of the days before and appends the record of the day afterwards.
\* An order of a Historical or Adaptive policy placed on one of the first
\* seven days is computed from the rates the policy was built with; a later
\* one from the consumption of days n - 7 to n - 1.
C40_OrderBeforeRecord ==
    \A h \in Households :
        (Stepped(h) /\ call.ordered) =>
            LET n == Len(history[h])
                arg == config[h].order
                policy == Policy(h)
            IN  /\ n = current_day[h]
                /\ call.order.records = SubSeq(history[h], 1, n - 1)
                /\ history[h][n] = call.ret
                /\ arg.kind = "Adaptive" =>
                    IF n <= HISTORY_WINDOW THEN AsConfigured(policy, arg)
                    ELSE FromWeekBefore(policy, history[h], n)
                /\ arg.kind = "Historical" =>
                    IF n <= HISTORY_WINDOW
                    THEN AsConfigured(policies[policy.base_policy], arg)
                    ELSE FromWeekBefore(policies[policy.base_policy], history[h], n)

\* the order of the eighth day of an adaptive household, computed from a
\* week in which the days were not alike
C40_Witness ==
    \E h \in Households :
        /\ Stepped(h) /\ call.ordered
        /\ config[h].order.kind = "Adaptive"
        /\ Len(history[h]) = HISTORY_WINDOW + 1
        /\ Len(call.order.records) = HISTORY_WINDOW
        /\ ~AsConfigured(Policy(h), config[h].order)
        /\ history[h][HISTORY_WINDOW + 1].daily_consumption
            # history[h][1].daily_consumption
====
